---- MODULE Spec2Model ----
(***************************************************************************)
(* A model of docc-mcp's indexing and retrieval core: the chunkers of the  *)
(* lexical (TextSearchEngine) and the vector (SemanticSearchEngine)        *)
(* engine, the symbol/article path resolver of DocCArchiveManager, and the *)
(* two engines' in-memory indices with their persisted index files.        *)
(*                                                                         *)
(* Each component has its own specification over the shared variables:     *)
(*   SpecChunk    chunkText of both engines, one loop iteration per step   *)
(*   SpecResolve  findSymbolPath / findArticlePath over configured roots   *)
(*   SpecIndex    addToIndex, clearIndex, search, saveIndex, loadIndex     *)
(***************************************************************************)
EXTENDS Integers, Sequences, FiniteSets, TLC

VARIABLES
    \* chunkText (text-search.ts 213-230, index.ts 349-369)
    ckEngine,   \* "text" | "vector": whose chunkText is running
    ckWords,    \* text.split(/\s+/): 0 is the empty string, k > 0 the k-th word
    ckMax,      \* maxTokens
    ckOvl,      \* overlap
    ckI,        \* the loop variable i
    ckChunks,   \* the chunks pushed so far; after the return, the value returned
    ckIter,     \* loop iterations run by this call
    ckPc,       \* "idle" | "loop" | "done"
    \* DocCArchiveManager (docc-manager.ts 65-73)
    fs,          \* per configured root, in order: the data tree of the archive
                 \* directory found there, or NoArchive
    symbolCache, \* cache key -> the document stored under it
    rsLast,      \* the last completed call and what it returned
    \* TextSearchEngine (text-search.ts 39-48), SemanticSearchEngine (index.ts 294-301)
    ixEngine,    \* "text" | "vector": the engine class this process runs
    documents,   \* TextSearchEngine.documents
    tfidf,       \* TextSearchEngine.tfidf: the contents added, in order
    embedder,    \* SemanticSearchEngine.embedder: TRUE once the model is loaded
    embeddings,  \* SemanticSearchEngine.embeddings
    ixFile,      \* the engine's index file (text-index.json | embeddings.json)
    ixFresh,     \* the engine was constructed and no method has run on it yet
    ixSaved,     \* what the engine of the last saveIndex held when it saved,
                 \* and whether that write is what the file now holds
    ixLast,      \* the last completed call and its outcome
    \* the ingest loop body (index-builder.ts 106-109): processDocCContent, addToIndex
    pgEngine,    \* "text" | "vector": the engine that ingests
    pgSymbol,    \* the symbol document of the last processDocCContent call
    pgChunks,    \* the chunks that call returned
    pgIndex,     \* the records addToIndex has registered
    pgPc,        \* "idle" | "processed"
    \* the content extractors
    exTree,      \* the content value of the last call
    exPath,      \* "none" | "manager" | "vector" | "lexical" | "inline": whose extractor ran
    exOut,       \* what the call returned or threw
    \* DocCArchiveManager.listArchives
    laFs,         \* per configured root, in order: what the root holds
    archiveCache, \* DocCArchiveManager.archiveCache: archive name -> metadata
    laLast,       \* the last listArchives call and what it returned
    \* concurrent calls on one engine
    tasks         \* per call: where it is suspended and what it holds

ckVars == <<ckEngine, ckWords, ckMax, ckOvl, ckI, ckChunks, ckIter, ckPc>>

rsVars == <<fs, symbolCache, rsLast>>

ixVars == <<ixEngine, documents, tfidf, embedder, embeddings, ixFile, ixFresh,
            ixSaved, ixLast>>

pgVars == <<pgEngine, pgSymbol, pgChunks, pgIndex, pgPc>>

exVars == <<exTree, exPath, exOut>>

laVars == <<laFs, archiveCache, laLast>>

coVars == <<tasks>>

vars == <<ckVars, rsVars, ixVars, pgVars, exVars, laVars, coVars>>

\* what the actions of one component leave alone
ckOthers == <<rsVars, ixVars, pgVars, exVars, laVars, coVars>>
rsOthers == <<ckVars, ixVars, pgVars, exVars, laVars, coVars>>
ixOthers == <<ckVars, rsVars, pgVars, exVars, laVars, coVars>>
pgOthers == <<ckVars, rsVars, ixVars, exVars, laVars, coVars>>
exOthers == <<ckVars, rsVars, ixVars, pgVars, laVars, coVars>>
laOthers == <<ckVars, rsVars, ixVars, pgVars, exVars, coVars>>
coOthers == <<ckVars, rsVars, pgVars, exVars, laVars>>

-----------------------------------------------------------------------------
(* Bounds of the model *)

MaxWords == 5
MaxTokenArg == 5
MaxOverlapArg == 5
\* a call whose step is positive needs at most one iteration per word; a call
\* that reaches MaxIter iterations is one that never returns
MaxIter == MaxWords + 3
\* configured search roots (--archive-path arguments)
NumRoots == 2
\* records an index grows to by addToIndex
MaxRecords == 2
\* the limit argument of search
MaxLimit == 2
\* how far below and above a floor the text lengths of a symbol go, and how
\* many words past one window its long discussion has
FloorSlack == 1
\* records in the index up to which another symbol is ingested
MaxIndexed == 1
\* elements of the content array handed to an extractor
MaxItems == 2
\* sections in every document file
DocSections == 2

\* searchInArchive reads the first 200 files; search returns 50 results
SearchFileCap == 200
SearchResultCap == 50

-----------------------------------------------------------------------------
(* Helpers *)

Min(a, b) == IF a < b THEN a ELSE b
Max(a, b) == IF a > b THEN a ELSE b

\* Array.prototype.slice(start, end): a negative index counts from the end
SliceIndex(len, k) == IF k < 0 THEN Max(len + k, 0) ELSE Min(k, len)
Slice(s, start, end) ==
    LET lo == SliceIndex(Len(s), start)
        hi == SliceIndex(Len(s), end)
    IN  IF lo >= hi THEN <<>> ELSE SubSeq(s, lo + 1, hi)

\* words.join(' ').trim(): the empty strings at either end leave only spaces
RECURSIVE TrimLeft(_)
TrimLeft(s) == IF s = <<>> THEN <<>>
               ELSE IF Head(s) = 0 THEN TrimLeft(Tail(s)) ELSE s
RECURSIVE TrimRight(_)
TrimRight(s) == IF s = <<>> THEN <<>>
                ELSE IF s[Len(s)] = 0 THEN TrimRight(SubSeq(s, 1, Len(s) - 1)) ELSE s
Trim(s) == TrimRight(TrimLeft(s))

\* text.split(/\s+/) of a text of n words with optional leading and trailing
\* whitespace: "" gives [""], "  " gives ["", ""]
SplitWords(n, lead, trail) ==
    IF n = 0 THEN (IF lead \/ trail THEN <<0, 0>> ELSE <<0>>)
    ELSE (IF lead THEN <<0>> ELSE <<>>) \o [k \in 1..n |-> k]
         \o (IF trail THEN <<0>> ELSE <<>>)

\* the number of words of a chunk
WordCount(s) == Cardinality({k \in 1..Len(s) : s[k] # 0})

\* text.length > 0
NonEmptyText(words) == words # <<0>>

\* no call on an engine is under way
IdleTasks ==
    [add |-> [pc |-> "idle", chunks |-> <<>>, next |-> 0, afterLoad |-> FALSE],
     load |-> [pc |-> "idle", got |-> <<>>],
     save |-> [pc |-> "idle", snapshot |-> <<>>],
     search |-> [pc |-> "idle"]]
coIdle == tasks = IdleTasks

\* the archive listing before a call, with no root readable
laIdle ==
    /\ laFs = [r \in 1..NumRoots |->
                 [readable |-> FALSE,
                  entries |-> [n \in {"A", "B"} |->
                      [present |-> FALSE, metadata |-> "none", symbolCount |-> 0]]]]
    /\ archiveCache = <<>>
    /\ laLast = [op |-> "none", outcome |-> "ok", archives |-> <<>>]

\* the extractors before a call
exIdle ==
    /\ exTree = [has |-> FALSE, items |-> <<>>]
    /\ exPath = "none"
    /\ exOut = [outcome |-> "ok", results |-> <<>>]

\* the ingest loop before its first symbol
pgIdle ==
    /\ pgEngine = "text"
    /\ pgSymbol = [title |-> <<>>, abstract |-> <<>>, discussion |-> <<>>,
                   parameter |-> <<>>]
    /\ pgChunks = <<>>
    /\ pgIndex = <<>>
    /\ pgPc = "idle"

-----------------------------------------------------------------------------
(* The archive roots and the symbol / article resolver (docc-manager.ts) *)

Roots == 1..NumRoots

\* a root without an archive directory of the requested name
NoArchive == [present |-> FALSE, data |-> <<>>]
Archive(tree) == [present |-> TRUE, data |-> tree]
\* the null a resolver returns; a found path is <<root, directory..., file>>
Null == <<>>

\* readdir entries: a .json document file (named without the extension) or a
\* directory with its own entries, in enumeration order
File(n) == [name |-> n, dir |-> FALSE, kids |-> <<>>]
Dir(n, kids) == [name |-> n, dir |-> TRUE, kids |-> kids]

\* the data directories an archive of the model may have
DataTrees ==
    { <<>>,
      <<File("Foo")>>,
      <<File("foo")>>,
      <<File("foo"), File("Foo")>>,
      <<Dir("documentation", <<File("Foo")>>)>>,
      <<Dir("documentation", <<File("foo")>>), File("Foo")>>,
      <<Dir("documentation", <<File("Foo")>>), Dir("tutorials", <<File("Foo")>>)>> }

\* archive names a caller may pass; only "A" exists under any root
ArchiveNames == {"A", "B"}
ArchiveAt(r, archiveName) == IF archiveName = "A" THEN fs[r] ELSE NoArchive

\* ids a caller may pass, as the components between '/' (id.split('/'))
Ids == { <<"Foo">>, <<"foo">>, <<"documentation", "Foo">>,
         <<"doc:", "", "A", "documentation", "Foo">> }

\* String.prototype.toLowerCase on the names of the model
toLowerCase(n) == IF n = "Foo" THEN "foo" ELSE IF n = "VIEW" THEN "view" ELSE n

\* symbolId.includes('/')
IncludesSlash(id) == Len(id) > 1

\* path.join below the data directory: empty components are dropped and a
\* '..' component removes the component before it, or stays in front when
\* there is none (the path then leaves the data directory)
RECURSIVE NormalizeOnto(_, _)
NormalizeOnto(done, comps) ==
    IF comps = <<>> THEN done
    ELSE IF Head(comps) = "" THEN NormalizeOnto(done, Tail(comps))
    ELSE IF Head(comps) = ".." /\ done # <<>> /\ done[Len(done)] # ".."
    THEN NormalizeOnto(SubSeq(done, 1, Len(done) - 1), Tail(comps))
    ELSE NormalizeOnto(Append(done, Head(comps)), Tail(comps))
Normalize(comps) == NormalizeOnto(<<>>, comps)

\* fs.access of data/<comps>.json below the entries of a data directory
RECURSIVE LookupFile(_, _)
LookupFile(entries, comps) ==
    IF comps = <<>> THEN FALSE
    ELSE \E k \in 1..Len(entries) :
           /\ entries[k].name = Head(comps)
           /\ IF Len(comps) = 1 THEN ~entries[k].dir
              ELSE entries[k].dir /\ LookupFile(entries[k].kids, Tail(comps))

\* fs.access of a normalized path: below the data directory the tree decides;
\* beside the data directory every archive holds its metadata.json
Accessible(entries, comps) ==
    IF comps # <<>> /\ comps[1] = ".."
    THEN comps = <<"..", "metadata">>
    ELSE LookupFile(entries, comps)

\* the entry of a data directory a path below it names; the path names one
RECURSIVE EntryAt(_, _)
EntryAt(entries, comps) ==
    LET k == CHOOSE j \in 1..Len(entries) :
                 /\ entries[j].name = Head(comps)
                 /\ entries[j].dir = (Len(comps) > 1)
    IN  IF Len(comps) = 1 THEN entries[k] ELSE EntryAt(entries[k].kids, Tail(comps))

\* JSON.parse of the text of a file: a malformed file holds no JSON
ParsesEntry(e) == "malformed" \notin DOMAIN e

\* JSON.parse of the file at the path <<root, components...>> that a lookup
\* returned; metadata.json beside the data directory holds JSON
Parses(path) ==
    IF path[2] = ".." THEN TRUE
    ELSE ParsesEntry(EntryAt(fs[path[1]].data, Tail(path)))

\* docc-manager.ts 401 and 406-407: an id with a '/' equals no file name
ExactMatch(baseName, id) == Len(id) = 1 /\ baseName = id[1]
CaseInsensitiveMatch(baseName, id) ==
    Len(id) = 1 /\ toLowerCase(baseName) = toLowerCase(id[1])

\* searchForSymbolFile(dirPath, symbolId): depth first in enumeration order,
\* the first file matching exactly or case-insensitively wins
RECURSIVE searchForSymbolFile(_, _, _)
searchForSymbolFile(entries, id, at) ==
    IF entries = <<>> THEN Null
    ELSE LET e == Head(entries) IN
         IF e.dir
         THEN LET result == searchForSymbolFile(e.kids, id, Append(at, e.name)) IN
              IF result # Null THEN result
              ELSE searchForSymbolFile(Tail(entries), id, at)
         ELSE IF ExactMatch(e.name, id) \/ CaseInsensitiveMatch(e.name, id)
              THEN Append(at, e.name)
              ELSE searchForSymbolFile(Tail(entries), id, at)

\* the entries of the subdirectory of that name, or Null
SubDir(entries, n) ==
    IF \E k \in 1..Len(entries) : entries[k].dir /\ entries[k].name = n
    THEN LET k == CHOOSE j \in 1..Len(entries) : entries[j].dir /\ entries[j].name = n
         IN  <<entries[k].kids>>
    ELSE Null

\* the fall-back loop of searchForArticleFile over the other directories
RECURSIVE searchOtherDirs(_, _, _)
searchOtherDirs(entries, id, at) ==
    IF entries = <<>> THEN Null
    ELSE LET e == Head(entries)
             result == IF e.dir /\ e.name \notin {"tutorials", "documentation"}
                       THEN searchForSymbolFile(e.kids, id, Append(at, e.name))
                       ELSE Null
         IN  IF result # Null THEN result ELSE searchOtherDirs(Tail(entries), id, at)

\* searchForArticleFile(dirPath, articleId): tutorials, then documentation,
\* then the remaining directories; files of dirPath itself are not looked at
searchForArticleFile(entries, id, at) ==
    LET tut == SubDir(entries, "tutorials")
        inTut == IF tut # Null
                 THEN searchForSymbolFile(tut[1], id, Append(at, "tutorials"))
                 ELSE Null
        doc == SubDir(entries, "documentation")
        inDoc == IF doc # Null
                 THEN searchForSymbolFile(doc[1], id, Append(at, "documentation"))
                 ELSE Null
    IN  IF inTut # Null THEN inTut
        ELSE IF inDoc # Null THEN inDoc
        ELSE searchOtherDirs(entries, id, at)

\* what findSymbolPath finds in one root that holds the archive: the direct
\* path of an id with a '/', else the recursive search of the data directory
probeSymbol(r, tree, id) ==
    IF IncludesSlash(id) /\ Accessible(tree, Normalize(id))
    THEN <<r>> \o Normalize(id)
    ELSE searchForSymbolFile(tree, id, <<r>>)

\* findArticlePath 686-695: a doc:// URL loses its first two components
cleanId(articleId) ==
    IF Len(articleId) >= 3 /\ articleId[1] = "doc:" /\ articleId[2] = ""
    THEN SubSeq(articleId, 3, Len(articleId))
    ELSE articleId

\* what findArticlePath finds in one root that holds the archive; the second
\* direct probe, data/<category>/<id with its first '/' as '-'>.json, names a
\* file no data directory of the model holds
probeArticle(r, tree, articleId) ==
    LET id == cleanId(articleId)
        direct == <<id[1], id[Len(id)]>>
    IN  IF IncludesSlash(id) /\ Accessible(tree, Normalize(direct))
        THEN <<r>> \o Normalize(direct)
        ELSE searchForArticleFile(tree, id, <<r>>)

\* findSymbolPath left on the first root that holds the archive
RECURSIVE findSymbolPathFirstRootOnly(_, _, _)
findSymbolPathFirstRootOnly(r, id, archiveName) ==
    IF r > NumRoots THEN Null
    ELSE IF ArchiveAt(r, archiveName) = NoArchive
         THEN findSymbolPathFirstRootOnly(r + 1, id, archiveName)
         ELSE probeSymbol(r, ArchiveAt(r, archiveName).data, id)

\* findSymbolPath(symbolId, archiveName), its loop from root r on: a root
\* without the archive is skipped, and so is one whose probe found nothing
RECURSIVE findSymbolPath(_, _, _)
findSymbolPath(r, id, archiveName) ==
    IF r > NumRoots THEN Null
    ELSE IF ArchiveAt(r, archiveName) = NoArchive
         THEN findSymbolPath(r + 1, id, archiveName)
         ELSE LET result == probeSymbol(r, ArchiveAt(r, archiveName).data, id) IN
              IF result # Null THEN result
              ELSE findSymbolPath(r + 1, id, archiveName)

\* findArticlePath(articleId, archiveName), its loop from root r on
RECURSIVE findArticlePath(_, _, _)
findArticlePath(r, id, archiveName) ==
    IF r > NumRoots THEN Null
    ELSE IF ArchiveAt(r, archiveName) = NoArchive
         THEN findArticlePath(r + 1, id, archiveName)
         ELSE LET result == probeArticle(r, ArchiveAt(r, archiveName).data, id) IN
              IF result # Null THEN result
              ELSE findArticlePath(r + 1, id, archiveName)

\* the pieces of a name between which a ':' stands
Tokens(n) == IF n = "article:Foo" THEN <<"article", ":", "Foo">> ELSE <<n>>

\* the cache keys `${archiveName}:${symbolId}` and
\* `${archiveName}:article:${articleId}`, as the pieces of the string
RECURSIVE JoinSlash(_)
JoinSlash(comps) ==
    IF comps = <<>> THEN <<>>
    ELSE IF Len(comps) = 1 THEN Tokens(comps[1])
    ELSE Tokens(Head(comps)) \o <<"/">> \o JoinSlash(Tail(comps))
symbolCacheKey(archiveName, id) == Tokens(archiveName) \o <<":">> \o JoinSlash(id)
articleCacheKey(archiveName, id) ==
    Tokens(archiveName) \o <<":", "article", ":">> \o JoinSlash(id)

\* the options of getSymbol a caller leaves out (docc-manager.ts 210)
DefaultOptions == [includeReferences |-> FALSE, maxSections |-> 10, summaryOnly |-> FALSE]

\* what a returned document shows of the file it was read from
NullView == [kind |-> "null", summaryOnly |-> FALSE, sections |-> 0, references |-> FALSE]
ArticleView == [kind |-> "article", summaryOnly |-> FALSE, sections |-> DocSections,
                references |-> TRUE]
\* filteredSymbol of getSymbol: every document file holds DocSections sections
\* and a references map
SymbolView(options) ==
    IF options.summaryOnly
    THEN [kind |-> "symbol", summaryOnly |-> TRUE, sections |-> 0, references |-> FALSE]
    ELSE [kind |-> "symbol", summaryOnly |-> FALSE,
          sections |-> Min(DocSections, options.maxSections),
          references |-> options.includeReferences]

\* the document read from the file at a path: one document per file; the
\* null a lookup returns names no file
Document(path, view) == [file |-> path, view |-> view]
DocumentAt(path) == Document(path, SymbolView(DefaultOptions))
NullDocument == Document(Null, NullView)

\* getSymbol(symbolId, archiveName, options) on a cache: cache, findSymbolPath,
\* read, parse, filter, cache; a failing read or parse is caught and gives null
getSymbolResult(cache, id, archiveName, options) ==
    LET key == symbolCacheKey(archiveName, id)
        path == findSymbolPath(1, id, archiveName)
    IN  IF key \in DOMAIN cache THEN [cache |-> cache, result |-> cache[key]]
        ELSE IF path = Null \/ ~Parses(path)
        THEN [cache |-> cache, result |-> NullDocument]
        ELSE [cache |-> (key :> Document(path, SymbolView(options))) @@ cache,
              result |-> Document(path, SymbolView(options))]

getSymbolOver(ids, optionSet) ==
    \E id \in ids, archiveName \in ArchiveNames, options \in optionSet :
      LET got == getSymbolResult(symbolCache, id, archiveName, options) IN
      /\ symbolCache' = got.cache
      /\ rsLast' = [op |-> "getSymbol", id |-> id, archive |-> archiveName,
                    options |-> options, result |-> got.result]

getSymbol == getSymbolOver(Ids, {DefaultOptions})

\* getArticle(articleId, archiveName): cache, findArticlePath, read, parse,
\* cache; a failing read or parse is caught and gives null
getArticleOver(ids) ==
    \E id \in ids, archiveName \in ArchiveNames :
      LET key == articleCacheKey(archiveName, id)
          path == findArticlePath(1, id, archiveName)
          called == [op |-> "getArticle", id |-> id, archive |-> archiveName]
      IN  IF key \in DOMAIN symbolCache
          THEN /\ rsLast' = called @@ [result |-> symbolCache[key]]
               /\ UNCHANGED symbolCache
          ELSE IF path = Null \/ ~Parses(path)
          THEN /\ rsLast' = called @@ [result |-> NullDocument]
               /\ UNCHANGED symbolCache
          ELSE /\ symbolCache' = (key :> Document(path, ArticleView)) @@ symbolCache
               /\ rsLast' = called @@ [result |-> Document(path, ArticleView)]

getArticle == getArticleOver(Ids)

\* the manager after construction, before any call
rsIdle ==
    /\ fs = [r \in Roots |-> NoArchive]
    /\ symbolCache = <<>>
    /\ rsLast = [op |-> "none"]

-----------------------------------------------------------------------------
(* The two search engines and their index files (text-search.ts, index.ts) *)
(*                                                                         *)
(* A text is the sequence of its tokens.  A record carries the fields the  *)
(* engines read back: content, metadata.archive and, in the vector engine, *)
(* embedding.  A score is a JavaScript number: [nan |-> TRUE] is NaN.      *)

\* the chunks handed to addToIndex
ChunkSamples ==
    { [content |-> <<"view">>, archive |-> "A"],
      [content |-> <<"state", "view">>, archive |-> "B"] }
ChunkLists ==
    {<<c>> : c \in ChunkSamples} \cup {<<c, d>> : c \in ChunkSamples, d \in ChunkSamples}

\* the query argument of search and the text argument of generateEmbedding
Queries == { <<"view">>, <<"VIEW", "!", "state">>, <<"text">> }
\* the archiveFilter argument; "" stands for an omitted filter as well
ArchiveFilters == {"", "A", "B"}

\* the JSON text null as an element of a documents array, and the null that
\* JSON.parse makes of it in the list of records
JsonNull == << <<"null", <<>>>> >>
NullRecord == [content |-> <<>>, archive |-> "null"]

NaN == [nan |-> TRUE, val |-> 0]
Number(v) == [nan |-> FALSE, val |-> v]

\* cleanText: lower-case, a special character becomes a space
RECURSIVE cleanText(_)
cleanText(text) ==
    IF text = <<>> THEN <<>>
    ELSE IF Head(text) = "!" THEN cleanText(Tail(text))
    ELSE <<toLowerCase(Head(text))>> \o cleanText(Tail(text))

\* TfIdf of `natural': a document is kept as its lower-cased tokens
tf(term, document) == Cardinality({k \in 1..Len(document) : document[k] = term})
df(term, corpus) == Cardinality({i \in 1..Len(corpus) : tf(term, corpus[i]) > 0})
\* 1000 * ln(n)
LnMilli(n) ==
    CASE n = 1 -> 0 [] n = 2 -> 693 [] n = 3 -> 1099 [] n = 4 -> 1386
      [] n = 5 -> 1609 [] n = 6 -> 1792 [] n = 7 -> 1946 [] OTHER -> 2079
\* 1000 * (1 + ln(N / (1 + df)))
idf(term, corpus) == 1000 + LnMilli(Len(corpus)) - LnMilli(1 + df(term, corpus))
RECURSIVE measure(_, _, _)
measure(terms, corpus, i) ==
    IF terms = <<>> THEN 0
    ELSE tf(Head(terms), corpus[i]) * idf(Head(terms), corpus)
         + measure(Tail(terms), corpus, i)

\* this.embedder(text, {pooling: 'mean', normalize: true}): a unit vector
EmbedModel(text) ==
    IF text # <<>> /\ toLowerCase(text[1]) = "view" THEN <<1, 0>> ELSE <<0, 1>>

RECURSIVE SumSeq(_)
SumSeq(s) ==
    IF s = <<>> THEN 0
    ELSE IF Len(s) = 1 THEN s[1]
    ELSE LET half == Len(s) \div 2
         IN  SumSeq(SubSeq(s, 1, half)) + SumSeq(SubSeq(s, half + 1, Len(s)))
\* Math.sqrt of the square sums the model meets
Sqrt(n) == CHOOSE r \in 0..n : r * r = n

cosineSimilarity(a, b) ==
    LET dotProduct == SumSeq([i \in 1..Len(a) |-> a[i] * b[i]])
        magnitudeA == Sqrt(SumSeq([i \in 1..Len(a) |-> a[i] * a[i]]))
        magnitudeB == Sqrt(SumSeq([i \in 1..Len(b) |-> b[i] * b[i]]))
    IN  IF magnitudeA * magnitudeB = 0 THEN NaN
        ELSE Number(dotProduct \div (magnitudeA * magnitudeB))

\* Array.prototype.sort((a, b) => b.score - a.score): stable when the
\* comparator is a consistent ordering, implementation-defined otherwise
Before(a, b) == ~a.score.nan /\ ~b.score.nan /\ a.score.val > b.score.val
RECURSIVE Insert(_, _)
Insert(x, sorted) ==
    IF sorted = <<>> THEN <<x>>
    ELSE IF Before(x, Head(sorted)) THEN <<x>> \o sorted
    ELSE <<Head(sorted)>> \o Insert(x, Tail(sorted))
RECURSIVE StableSort(_)
StableSort(list) ==
    IF list = <<>> THEN <<>>
    ELSE Insert(list[Len(list)], StableSort(SubSeq(list, 1, Len(list) - 1)))
ConsistentComparator(list) ==
    ~ /\ \E k \in 1..Len(list) : list[k].score.nan
      /\ \E j, k \in 1..Len(list) :
             ~list[j].score.nan /\ ~list[k].score.nan
             /\ list[j].score.val # list[k].score.val
SortOutcomes(list) ==
    IF ConsistentComparator(list) THEN {StableSort(list)}
    ELSE {[k \in 1..Len(list) |-> list[p[k]]] : p \in Permutations(1..Len(list))}

\* results.filter(r => r.archive === archiveFilter)
FilterByArchive(list, archiveFilter) ==
    SelectSeq(list, LAMBDA r : r.archive = archiveFilter)

Thrown(error) == [outcome |-> error, results |-> <<>>]
Returned(results) == [outcome |-> "ok", results |-> results]

\* the tail of the lexical search with the truncation moved before the filter
limitThenFilter(results, limit, archiveFilter) ==
    LET top == Slice(results, 0, limit)
    IN  IF archiveFilter # "" THEN FilterByArchive(top, archiveFilter) ELSE top

\* the tail of TextSearchEngine.search: the archive filter, then slice(0, limit)
filterAndLimit(results, limit, archiveFilter) ==
    LET filtered == IF archiveFilter # "" THEN FilterByArchive(results, archiveFilter)
                    ELSE results
    IN  Slice(filtered, 0, limit)

\* TextSearchEngine.search: the outcomes of one call
TextSearchEngine_search(docs, corpus, query, limit, archiveFilter) ==
    IF Len(docs) = 0 THEN {Returned(<<>>)}
    ELSE LET cleanQuery == cleanText(query)
             all == [i \in 1..Len(corpus) |->
                        [index |-> i, score |-> Number(measure(cleanQuery, corpus, i))]]
             scores == SelectSeq(all, LAMBDA s : s.score.val > 0)
         IN  { IF \E k \in 1..Len(sorted) :
                       \/ sorted[k].index > Len(docs)
                       \/ docs[sorted[k].index] = NullRecord
               THEN Thrown("TypeError")
               ELSE LET results == [k \in 1..Len(sorted) |->
                                      [content |-> docs[sorted[k].index].content,
                                       archive |-> docs[sorted[k].index].archive,
                                       score |-> sorted[k].score]]
                    IN  Returned(filterAndLimit(results, limit, archiveFilter))
               : sorted \in SortOutcomes(scores) }

\* the ranking of SemanticSearchEngine.search: filter, score, sort, slice
rankRecords(records, query, limit, archiveFilter) ==
    LET queryEmbedding == EmbedModel(query)
        kept == IF archiveFilter = "" THEN records
                ELSE FilterByArchive(records, archiveFilter)
        scored == [k \in 1..Len(kept) |->
                     [content |-> kept[k].content,
                      archive |-> kept[k].archive,
                      score |-> cosineSimilarity(queryEmbedding, kept[k].embedding)]]
    IN  {Returned(Slice(sorted, 0, limit)) : sorted \in SortOutcomes(scored)}

\* a search that looks at the index before it looks at the embedder
SemanticSearchEngine_searchEmptyFirst(model, records, query, limit, archiveFilter) ==
    IF Len(records) = 0 THEN {Returned(<<>>)}
    ELSE IF ~model THEN {Thrown("NotInitialized")}
    ELSE rankRecords(records, query, limit, archiveFilter)

\* SemanticSearchEngine.search: the outcomes of one call
SemanticSearchEngine_search(model, records, query, limit, archiveFilter) ==
    IF ~model THEN {Thrown("NotInitialized")}
    ELSE IF Len(records) = 0 THEN {Returned(<<>>)}
    ELSE rankRecords(records, query, limit, archiveFilter)

\* SemanticSearchEngine.generateEmbedding
SemanticSearchEngine_generateEmbedding(model, text) ==
    IF ~model THEN [outcome |-> "NotInitialized", embedding |-> <<>>]
    ELSE [outcome |-> "ok", embedding |-> EmbedModel(text)]

\* the index file: absent, not parseable as JSON, or a JSON text
FileMissing == [state |-> "missing", body |-> <<>>]
FileCorrupt == [state |-> "corrupt", body |-> <<>>]
FileOf(body) == [state |-> "json", body |-> body]

\* JSON.stringify: an object is the list of its members, an array the list of
\* its elements; the timestamp member is the clock's and is never read back
StringifyDocument(doc) ==
    IF doc = NullRecord THEN JsonNull
    ELSE << <<"content", doc.content>>, <<"metadata.archive", doc.archive>> >>
\* a stringify that writes the documents newest first
StringifyDocumentsNewestFirst(docs) ==
    << <<"documents",
         [k \in 1..Len(docs) |-> StringifyDocument(docs[Len(docs) + 1 - k])]>>,
       <<"version", <<"1.0.0">>>> >>
StringifyDocuments(docs) ==
    << <<"documents", [k \in 1..Len(docs) |-> StringifyDocument(docs[k])]>>,
       <<"version", <<"1.0.0">>>> >>
StringifyEmbedding(rec) ==
    << <<"content", rec.content>>, <<"metadata.archive", rec.archive>>,
       <<"embedding", rec.embedding>> >>
StringifyEmbeddings(records) ==
    [k \in 1..Len(records) |-> StringifyEmbedding(records[k])]

\* JSON.parse and the member reads of loadIndex; indexData.documents || []
Member(object, key) ==
    LET at == {k \in 1..Len(object) : object[k][1] = key}
    IN  IF at = {} THEN <<>> ELSE object[CHOOSE k \in at : TRUE][2]
ParseDocuments(body) ==
    LET items == Member(body, "documents")
    IN  [k \in 1..Len(items) |->
            IF items[k] = JsonNull THEN NullRecord
            ELSE [content |-> Member(items[k], "content"),
                  archive |-> Member(items[k], "metadata.archive")]]

\* the loop of loadIndex that rebuilds the corpus: doc.content of a null
\* record throws, and the records before it stay in the new corpus
RECURSIVE RebuildCorpus(_)
RebuildCorpus(docs) ==
    IF docs = <<>> \/ Head(docs) = NullRecord THEN <<>>
    ELSE <<cleanText(Head(docs).content)>> \o RebuildCorpus(Tail(docs))
ParseEmbeddings(body) ==
    [k \in 1..Len(body) |->
        [content |-> Member(body[k], "content"),
         archive |-> Member(body[k], "metadata.archive"),
         embedding |-> Member(body[k], "embedding")]]

\* index files found on disk when the process starts
TextFileSamples ==
    { FileMissing, FileCorrupt,
      FileOf(<< <<"version", <<"1.0.0">>>> >>),
      FileOf(StringifyDocuments(<< [content |-> <<"view">>, archive |-> "A"], NullRecord >>)),
      FileOf(StringifyDocuments(<< [content |-> <<"view">>, archive |-> "A"],
                                   [content |-> <<"view", "state">>, archive |-> "B"],
                                   [content |-> <<"state", "state">>, archive |-> "A"] >>)) }
VectorFileSamples ==
    { FileMissing, FileCorrupt,
      FileOf(StringifyEmbeddings(
          << [content |-> <<"state", "state">>, archive |-> "A", embedding |-> <<0, 1>>],
             [content |-> <<"view", "state">>, archive |-> "B", embedding |-> <<0, 0>>],
             [content |-> <<"view">>, archive |-> "A", embedding |-> <<1, 0>>] >>)) }

NoSave == [ok |-> FALSE, documents |-> <<>>, tfidf |-> <<>>, embeddings |-> <<>>]

ixOther == UNCHANGED <<ixEngine, ixOthers>>

\* new TextSearchEngine(indexPath)
TextSearchEngine_constructor ==
    /\ ixEngine = "text"
    /\ documents' = <<>>
    /\ tfidf' = <<>>
    /\ ixFresh' = TRUE
    /\ ixLast' = [op |-> "constructor"]
    /\ UNCHANGED <<embedder, embeddings, ixFile, ixSaved>>
    /\ ixOther

\* TextSearchEngine.initialize: mkdir succeeds or throws
TextSearchEngine_initialize ==
    /\ ixEngine = "text"
    /\ \E outcome \in {"ok", "error"} :
           ixLast' = [op |-> "initialize", outcome |-> outcome]
    /\ ixFresh' = FALSE
    /\ UNCHANGED <<documents, tfidf, embedder, embeddings, ixFile, ixSaved>>
    /\ ixOther

TextSearchEngine_addToIndex ==
    /\ ixEngine = "text"
    /\ \E chunks \in ChunkLists :
         /\ Len(documents) + Len(chunks) <= MaxRecords
         /\ documents' = documents \o chunks
         /\ tfidf' = tfidf \o [k \in 1..Len(chunks) |-> cleanText(chunks[k].content)]
         /\ ixLast' = [op |-> "addToIndex", outcome |-> "ok"]
    /\ ixFresh' = FALSE
    /\ UNCHANGED <<embedder, embeddings, ixFile, ixSaved>>
    /\ ixOther

TextSearchEngine_searchCall ==
    /\ ixEngine = "text"
    /\ \E query \in Queries, limit \in 0..MaxLimit, archiveFilter \in ArchiveFilters :
       \E out \in TextSearchEngine_search(documents, tfidf, query, limit, archiveFilter) :
           ixLast' = [op |-> "search", query |-> query, limit |-> limit,
                      archiveFilter |-> archiveFilter, outcome |-> out.outcome,
                      results |-> out.results]
    /\ ixFresh' = FALSE
    /\ UNCHANGED <<documents, tfidf, embedder, embeddings, ixFile, ixSaved>>
    /\ ixOther

TextSearchEngine_clearIndex ==
    /\ ixEngine = "text"
    /\ documents' = <<>>
    /\ tfidf' = <<>>
    /\ ixLast' = [op |-> "clearIndex", outcome |-> "ok"]
    /\ ixFresh' = FALSE
    /\ UNCHANGED <<embedder, embeddings, ixFile, ixSaved>>
    /\ ixOther

\* TextSearchEngine.saveIndex: writeFile completes, or throws to the caller
\* with the file untouched or partly written
TextSearchEngine_saveIndex ==
    /\ ixEngine = "text"
    /\ \/ /\ ixFile' = FileOf(StringifyDocuments(documents))
          /\ ixSaved' = [ok |-> TRUE, documents |-> documents, tfidf |-> tfidf,
                         embeddings |-> <<>>]
          /\ ixLast' = [op |-> "saveIndex", outcome |-> "ok"]
       \/ /\ ixFile' \in {ixFile, FileCorrupt}
          /\ ixSaved' = NoSave
          /\ ixLast' = [op |-> "saveIndex", outcome |-> "error"]
    /\ ixFresh' = FALSE
    /\ UNCHANGED <<documents, tfidf, embedder, embeddings>>
    /\ ixOther

\* TextSearchEngine.loadIndex: readFile or JSON.parse throwing is only logged
TextSearchEngine_loadIndex ==
    /\ ixEngine = "text"
    /\ IF ixFile.state = "json"
       THEN LET loaded == ParseDocuments(ixFile.body) IN
            /\ documents' = loaded
            /\ tfidf' = RebuildCorpus(loaded)
       ELSE UNCHANGED <<documents, tfidf>>
    /\ ixLast' = [op |-> "loadIndex", outcome |-> "ok", file |-> ixFile.state,
                  fresh |-> ixFresh]
    /\ ixFresh' = FALSE
    /\ UNCHANGED <<embedder, embeddings, ixFile, ixSaved>>
    /\ ixOther

\* new SemanticSearchEngine(indexPath)
SemanticSearchEngine_constructor ==
    /\ ixEngine = "vector"
    /\ embedder' = FALSE
    /\ embeddings' = <<>>
    /\ ixFresh' = TRUE
    /\ ixLast' = [op |-> "constructor"]
    /\ UNCHANGED <<documents, tfidf, ixFile, ixSaved>>
    /\ ixOther

\* SemanticSearchEngine.initialize: the model loads, or pipeline() throws and
\* the embedder field is not assigned
SemanticSearchEngine_initialize ==
    /\ ixEngine = "vector"
    /\ \/ /\ embedder' = TRUE
          /\ ixLast' = [op |-> "initialize", outcome |-> "ok"]
       \/ /\ UNCHANGED embedder
          /\ ixLast' = [op |-> "initialize", outcome |-> "error"]
    /\ ixFresh' = FALSE
    /\ UNCHANGED <<documents, tfidf, embeddings, ixFile, ixSaved>>
    /\ ixOther

SemanticSearchEngine_generateEmbeddingCall ==
    /\ ixEngine = "vector"
    /\ \E text \in Queries :
         LET out == SemanticSearchEngine_generateEmbedding(embedder, text) IN
         ixLast' = [op |-> "generateEmbedding", text |-> text,
                    outcome |-> out.outcome, embedding |-> out.embedding]
    /\ ixFresh' = FALSE
    /\ UNCHANGED <<documents, tfidf, embedder, embeddings, ixFile, ixSaved>>
    /\ ixOther

\* SemanticSearchEngine.addToIndex: a chunk whose embedding throws is skipped
SemanticSearchEngine_addToIndex ==
    /\ ixEngine = "vector"
    /\ \E chunks \in ChunkLists :
         LET made == [k \in 1..Len(chunks) |->
                         SemanticSearchEngine_generateEmbedding(embedder, chunks[k].content)]
             records == [k \in 1..Len(chunks) |->
                           [content |-> chunks[k].content,
                            archive |-> chunks[k].archive,
                            embedding |-> made[k].embedding]]
             pushed == SelectSeq(records, LAMBDA r : r.embedding # <<>>)
         IN  /\ Len(embeddings) + Len(chunks) <= MaxRecords
             /\ embeddings' = embeddings \o pushed
             /\ ixLast' = [op |-> "addToIndex", outcome |-> "ok", chunks |-> chunks,
                           before |-> Len(embeddings)]
    /\ ixFresh' = FALSE
    /\ UNCHANGED <<documents, tfidf, embedder, ixFile, ixSaved>>
    /\ ixOther

SemanticSearchEngine_searchCall ==
    /\ ixEngine = "vector"
    /\ \E query \in Queries, limit \in 0..MaxLimit, archiveFilter \in ArchiveFilters :
       \E out \in SemanticSearchEngine_search(embedder, embeddings, query, limit,
                                              archiveFilter) :
           ixLast' = [op |-> "search", query |-> query, limit |-> limit,
                      archiveFilter |-> archiveFilter, outcome |-> out.outcome,
                      results |-> out.results]
    /\ ixFresh' = FALSE
    /\ UNCHANGED <<documents, tfidf, embedder, embeddings, ixFile, ixSaved>>
    /\ ixOther

SemanticSearchEngine_clearIndex ==
    /\ ixEngine = "vector"
    /\ embeddings' = <<>>
    /\ ixLast' = [op |-> "clearIndex", outcome |-> "ok"]
    /\ ixFresh' = FALSE
    /\ UNCHANGED <<documents, tfidf, embedder, ixFile, ixSaved>>
    /\ ixOther

\* SemanticSearchEngine.saveIndex: a failing mkdir or writeFile is only logged
SemanticSearchEngine_saveIndex ==
    /\ ixEngine = "vector"
    /\ \/ /\ ixFile' = FileOf(StringifyEmbeddings(embeddings))
          /\ ixSaved' = [ok |-> TRUE, documents |-> <<>>, tfidf |-> <<>>,
                         embeddings |-> embeddings]
       \/ /\ ixFile' \in {ixFile, FileCorrupt}
          /\ ixSaved' = NoSave
    /\ ixLast' = [op |-> "saveIndex", outcome |-> "ok"]
    /\ ixFresh' = FALSE
    /\ UNCHANGED <<documents, tfidf, embedder, embeddings>>
    /\ ixOther

\* SemanticSearchEngine.loadIndex: any failure resets the list
SemanticSearchEngine_loadIndex ==
    /\ ixEngine = "vector"
    /\ embeddings' = IF ixFile.state = "json" THEN ParseEmbeddings(ixFile.body)
                     ELSE <<>>
    /\ ixLast' = [op |-> "loadIndex", outcome |-> "ok", file |-> ixFile.state,
                  fresh |-> ixFresh]
    /\ ixFresh' = FALSE
    /\ UNCHANGED <<documents, tfidf, embedder, ixFile, ixSaved>>
    /\ ixOther

\* the engines before the process constructs one
ixIdle ==
    /\ ixEngine = "text"
    /\ documents = <<>>
    /\ tfidf = <<>>
    /\ embedder = FALSE
    /\ embeddings = <<>>
    /\ ixFile = FileMissing
    /\ ixFresh = TRUE
    /\ ixSaved = NoSave
    /\ ixLast = [op |-> "none"]

-----------------------------------------------------------------------------
(* chunkText *)

\* index.ts 355-356: Math.floor(maxTokens * 0.75), Math.floor(overlap * 0.75)
wordsPerChunk(maxTokens) == (maxTokens * 3) \div 4
overlapWords(overlap) == (overlap * 3) \div 4

\* the window size and the step of the running call
ckBudget == IF ckEngine = "text" THEN ckMax ELSE wordsPerChunk(ckMax)
ckStep == IF ckEngine = "text" THEN ckMax - ckOvl
          ELSE wordsPerChunk(ckMax) - overlapWords(ckOvl)

\* a call of chunkText(text, maxTokens, overlap) up to its loop
chunkTextCall ==
    /\ ckPc = "idle"
    /\ \E e \in {"text", "vector"}, n \in 0..MaxWords, lead \in BOOLEAN,
          trail \in BOOLEAN, m \in 1..MaxTokenArg, o \in 0..MaxOverlapArg :
         LET words == SplitWords(n, lead, trail) IN
         /\ ckEngine' = e
         /\ ckWords' = words
         /\ ckMax' = m
         /\ ckOvl' = o
         /\ ckI' = 0
         /\ ckIter' = 0
         /\ IF e = "text" /\ Len(words) <= m
            THEN ckChunks' = <<words>> /\ ckPc' = "done"
            ELSE ckChunks' = <<>> /\ ckPc' = "loop"
    /\ UNCHANGED ckOthers

\* one iteration of the lexical engine's for loop (text-search.ts 222-229)
TextChunkStep ==
    /\ ckPc = "loop" /\ ckEngine = "text" /\ ckIter < MaxIter
    /\ IF ckI < Len(ckWords)
       THEN LET chunk == Slice(ckWords, ckI, ckI + ckMax) IN
            /\ ckChunks' = IF Trim(chunk) # <<>> THEN Append(ckChunks, chunk)
                           ELSE ckChunks
            /\ ckI' = ckI + (ckMax - ckOvl)
            /\ ckIter' = ckIter + 1
            /\ ckPc' = "loop"
       ELSE /\ ckPc' = "done"
            /\ UNCHANGED <<ckChunks, ckI, ckIter>>
    /\ UNCHANGED <<ckEngine, ckWords, ckMax, ckOvl>>
    /\ UNCHANGED ckOthers

\* one iteration of the vector engine's for loop (index.ts 358-368)
VectorChunkStep ==
    /\ ckPc = "loop" /\ ckEngine = "vector" /\ ckIter < MaxIter
    /\ LET wpc == wordsPerChunk(ckMax)
           chunk == Slice(ckWords, ckI, ckI + wpc)
           pushed == IF Trim(chunk) # <<>> THEN Append(ckChunks, Trim(chunk))
                     ELSE ckChunks
       IN  IF ckI < Len(ckWords)
           THEN IF ckI + wpc >= Len(ckWords)
                THEN /\ ckChunks' = IF pushed # <<>> THEN pushed ELSE <<ckWords>>
                     /\ ckPc' = "done"
                     /\ ckIter' = ckIter + 1
                     /\ UNCHANGED ckI
                ELSE /\ ckChunks' = pushed
                     /\ ckI' = ckI + (wpc - overlapWords(ckOvl))
                     /\ ckIter' = ckIter + 1
                     /\ ckPc' = "loop"
           ELSE /\ ckChunks' = IF ckChunks # <<>> THEN ckChunks ELSE <<ckWords>>
                /\ ckPc' = "done"
                /\ UNCHANGED <<ckI, ckIter>>
    /\ UNCHANGED <<ckEngine, ckWords, ckMax, ckOvl>>
    /\ UNCHANGED ckOthers

\* the chunker before a call
ckIdle ==
    /\ ckEngine = "text"
    /\ ckWords = <<0>>
    /\ ckMax = 1
    /\ ckOvl = 0
    /\ ckI = 0
    /\ ckChunks = <<>>
    /\ ckIter = 0
    /\ ckPc = "idle"

InitChunk == ckIdle /\ rsIdle /\ ixIdle /\ pgIdle /\ exIdle /\ laIdle /\ coIdle

NextChunk == chunkTextCall \/ TextChunkStep \/ VectorChunkStep

SpecChunk == InitChunk /\ [][NextChunk]_vars

-----------------------------------------------------------------------------
(* The resolver over every layout of the configured roots *)

InitResolve ==
    /\ fs \in [Roots -> {Archive(t) : t \in DataTrees} \cup {NoArchive}]
    /\ symbolCache = <<>>
    /\ rsLast = [op |-> "none"]
    /\ ckIdle
    /\ ixIdle
    /\ pgIdle
    /\ exIdle
    /\ laIdle
    /\ coIdle

getSymbolCall == getSymbol /\ UNCHANGED <<fs, rsOthers>>
getArticleCall == getArticle /\ UNCHANGED <<fs, rsOthers>>

NextResolve == getSymbolCall \/ getArticleCall

SpecResolve == InitResolve /\ [][NextResolve]_vars

-----------------------------------------------------------------------------
(* The engines over every index file the process may find *)

\* a process that runs one engine over whatever index file it finds
InitIndex ==
    /\ ixEngine \in {"text", "vector"}
    /\ documents = <<>>
    /\ tfidf = <<>>
    /\ embedder = FALSE
    /\ embeddings = <<>>
    /\ ixFile \in IF ixEngine = "text" THEN TextFileSamples ELSE VectorFileSamples
    /\ ixFresh = TRUE
    /\ ixSaved = NoSave
    /\ ixLast = [op |-> "none"]
    /\ ckIdle
    /\ rsIdle
    /\ pgIdle
    /\ exIdle
    /\ laIdle
    /\ coIdle

NextIndex ==
    \/ TextSearchEngine_constructor
    \/ TextSearchEngine_initialize
    \/ TextSearchEngine_addToIndex
    \/ TextSearchEngine_searchCall
    \/ TextSearchEngine_clearIndex
    \/ TextSearchEngine_saveIndex
    \/ TextSearchEngine_loadIndex
    \/ SemanticSearchEngine_constructor
    \/ SemanticSearchEngine_initialize
    \/ SemanticSearchEngine_generateEmbeddingCall
    \/ SemanticSearchEngine_addToIndex
    \/ SemanticSearchEngine_searchCall
    \/ SemanticSearchEngine_clearIndex
    \/ SemanticSearchEngine_saveIndex
    \/ SemanticSearchEngine_loadIndex

SpecIndex == InitIndex /\ [][NextIndex]_vars

-----------------------------------------------------------------------------
(* processDocCContent and the ingest loop (index.ts 374-429, text-search.ts *)
(* 71-151, index-builder.ts 106-109)                                        *)
(*                                                                          *)
(* A text is the sequence of the lengths of its words; words are joined by  *)
(* single spaces.  A symbol document is given by the text extraction yields *)
(* for its title, its abstract, its one discussion section and its one      *)
(* parameter; <<>> is a field that is absent or extracts to "".             *)

\* abstractText.length > 50, discussionText.length > 50, paramText.length > 20
AbstractFloor == 50
DiscussionFloor == 50
ParameterFloor == 20
\* the default arguments of SemanticSearchEngine.chunkText
VectorMaxTokens == 500
VectorOverlap == 50
\* the arguments TextSearchEngine.processDocCContent passes to chunkText
TextMaxTokens == 1000
TextOverlap == 100

\* string.length
CharLength(text) == IF text = <<>> THEN 0 ELSE SumSeq(text) + Len(text) - 1

WordsOfOneChar(n) == [k \in 1..n |-> 1]
NearFloor(floor) == {<<c>> : c \in (floor - FloorSlack)..(floor + FloorSlack)}

SymbolTitles == {<<3>>}
SymbolAbstracts == {<<>>} \cup NearFloor(AbstractFloor)
SymbolDiscussions ==
    {<<>>} \cup NearFloor(DiscussionFloor)
        \cup {WordsOfOneChar(wordsPerChunk(VectorMaxTokens) + k) : k \in 1..FloorSlack}
SymbolParameters == {<<>>} \cup NearFloor(ParameterFloor)
Symbols ==
    [title : SymbolTitles, abstract : SymbolAbstracts,
     discussion : SymbolDiscussions, parameter : SymbolParameters]

\* SemanticSearchEngine.chunkText as a function of the words of the text
RECURSIVE SemanticChunkLoop(_, _, _, _, _)
SemanticChunkLoop(words, wpc, step, i, chunks) ==
    IF i >= Len(words) THEN chunks
    ELSE LET chunk == Slice(words, i, i + wpc)
             pushed == IF Trim(chunk) # <<>> THEN Append(chunks, Trim(chunk))
                       ELSE chunks
         IN  IF i + wpc >= Len(words) THEN pushed
             ELSE SemanticChunkLoop(words, wpc, step, i + step, pushed)
SemanticSearchEngine_chunkText(words, maxTokens, overlap) ==
    LET chunks == SemanticChunkLoop(words, wordsPerChunk(maxTokens),
                                    wordsPerChunk(maxTokens) - overlapWords(overlap),
                                    0, <<>>)
    IN  IF chunks # <<>> THEN chunks ELSE <<words>>

\* TextSearchEngine.chunkText as a function of the words of the text
RECURSIVE TextChunkLoop(_, _, _, _, _)
TextChunkLoop(words, maxTokens, step, i, chunks) ==
    IF i >= Len(words) THEN chunks
    ELSE LET chunk == Slice(words, i, i + maxTokens)
         IN  TextChunkLoop(words, maxTokens, step, i + step,
                           IF Trim(chunk) # <<>> THEN Append(chunks, chunk) ELSE chunks)
TextSearchEngine_chunkText(words, maxTokens, overlap) ==
    IF Len(words) <= maxTokens THEN <<words>>
    ELSE TextChunkLoop(words, maxTokens, maxTokens - overlap, 0, <<>>)

Chunk(kind, text) == [kind |-> kind, text |-> text]

\* SemanticSearchEngine.processDocCContent: the extracted text of each chunk
\* (the content is that text behind a "<title>: " prefix)
SemanticSearchEngine_processDocCContent(symbol) ==
    LET abstractChunks ==
            IF CharLength(symbol.abstract) > AbstractFloor
            THEN <<Chunk("abstract", symbol.abstract)>> ELSE <<>>
        textChunks ==
            SemanticSearchEngine_chunkText(symbol.discussion, VectorMaxTokens,
                                           VectorOverlap)
        discussionChunks ==
            IF CharLength(symbol.discussion) > DiscussionFloor
            THEN [k \in 1..Len(textChunks) |-> Chunk("discussion", textChunks[k])]
            ELSE <<>>
        parameterChunks ==
            IF CharLength(symbol.parameter) > ParameterFloor
            THEN <<Chunk("parameter", symbol.parameter)>> ELSE <<>>
    IN  abstractChunks \o discussionChunks \o parameterChunks

\* TextSearchEngine.processDocCContent: title, abstract and content sections
\* joined into one cleaned text, chunked; parameter sections are not read
TextSearchEngine_processDocCContent(symbol) ==
    LET mainContent == symbol.title \o symbol.abstract \o symbol.discussion
        textChunks == TextSearchEngine_chunkText(mainContent, TextMaxTokens, TextOverlap)
    IN  IF mainContent # <<>>
        THEN [k \in 1..Len(textChunks) |-> Chunk("main", textChunks[k])]
        ELSE <<>>

SemanticSearchEngine_processDocCContentCall ==
    /\ pgEngine = "vector" /\ pgPc = "idle" /\ Len(pgIndex) < MaxIndexed
    /\ \E symbol \in Symbols :
         /\ pgSymbol' = symbol
         /\ pgChunks' = SemanticSearchEngine_processDocCContent(symbol)
    /\ pgPc' = "processed"
    /\ UNCHANGED <<pgEngine, pgIndex, pgOthers>>

TextSearchEngine_processDocCContentCall ==
    /\ pgEngine = "text" /\ pgPc = "idle" /\ Len(pgIndex) < MaxIndexed
    /\ \E symbol \in Symbols :
         /\ pgSymbol' = symbol
         /\ pgChunks' = TextSearchEngine_processDocCContent(symbol)
    /\ pgPc' = "processed"
    /\ UNCHANGED <<pgEngine, pgIndex, pgOthers>>

\* if (chunks.length > 0) await searchEngine.addToIndex(chunks)
pgAddToIndex ==
    /\ pgPc = "processed"
    /\ pgIndex' = pgIndex \o pgChunks
    /\ pgPc' = "idle"
    /\ UNCHANGED <<pgEngine, pgSymbol, pgChunks, pgOthers>>

\* searchEngine.clearIndex() of a rebuild
pgClearIndex ==
    /\ pgPc = "idle" /\ pgIndex # <<>>
    /\ pgIndex' = <<>>
    /\ UNCHANGED <<pgEngine, pgSymbol, pgChunks, pgPc, pgOthers>>

InitIngest ==
    /\ pgEngine \in {"text", "vector"}
    /\ pgSymbol = [title |-> <<>>, abstract |-> <<>>, discussion |-> <<>>,
                   parameter |-> <<>>]
    /\ pgChunks = <<>>
    /\ pgIndex = <<>>
    /\ pgPc = "idle"
    /\ ckIdle
    /\ rsIdle
    /\ ixIdle
    /\ exIdle
    /\ laIdle
    /\ coIdle

NextIngest ==
    \/ SemanticSearchEngine_processDocCContentCall
    \/ TextSearchEngine_processDocCContentCall
    \/ pgAddToIndex
    \/ pgClearIndex

SpecIngest == InitIngest /\ [][NextIngest]_vars

-----------------------------------------------------------------------------
(* The content extractors (docc-manager.ts 552-570, index.ts 434-452,      *)
(* text-search.ts 156-197)                                                 *)
(*                                                                         *)
(* A string is the sequence of its fragments, " " being one space.  A      *)
(* value read as an array is [has, items]: has is FALSE for a value that   *)
(* is undefined or not an array.                                           *)

NotArray == [has |-> FALSE, items |-> <<>>]
Array(items) == [has |-> TRUE, items |-> items]
NoCode == [kind |-> "none", items |-> <<>>]
CodeString(s) == [kind |-> "string", items |-> <<s>>]
CodeArray(lines) == [kind |-> "array", items |-> lines]

\* an element of a content array: null, a string, or an object
Node(type, text, code, inlineContent, content) ==
    [type |-> type, text |-> text, code |-> code, inlineContent |-> inlineContent,
     content |-> content]
NullItem == Node("null", "", NoCode, NotArray, NotArray)
StringItem(s) == Node("string", s, NoCode, NotArray, NotArray)
TextNode(t) == Node("text", t, NoCode, NotArray, NotArray)
CodeVoice(c) == Node("codeVoice", "", CodeString(c), NotArray, NotArray)
Heading(t) == Node("heading", t, NoCode, NotArray, NotArray)
CodeListing(code) == Node("codeListing", "", code, NotArray, NotArray)
Paragraph(kids) == Node("paragraph", "", NoCode, Array(kids), NotArray)
Container(type, kids) == Node(type, "", NoCode, NotArray, Array(kids))

Leaves ==
    { NullItem, StringItem("p"), TextNode("a"), TextNode(""), CodeVoice("c"),
      Heading("h"), CodeListing(CodeString("s")), CodeListing(CodeArray(<<"l1", "l2">>)),
      Node("image", "", NoCode, NotArray, NotArray) }
KidLists ==
    {<<>>} \cup {<<leaf>> : leaf \in Leaves}
        \cup { <<TextNode("a"), CodeVoice("c")>>,
               <<TextNode("a"), Paragraph(<<>>), CodeVoice("c")>> }
Nodes ==
    Leaves \cup {Paragraph(kids) : kids \in KidLists}
           \cup {Container("aside", kids) : kids \in KidLists}
\* the values passed as a content tree
ContentTrees ==
    {NotArray} \cup {Array(items) : items \in UNION {[1..n -> Nodes] : n \in 0..MaxItems}}

\* string + ' '
Spaced(s) == s \o <<" ">>
\* String.prototype.trim
RECURSIVE TrimSpacesLeft(_)
TrimSpacesLeft(s) ==
    IF s = <<>> THEN <<>>
    ELSE IF Head(s) = " " THEN TrimSpacesLeft(Tail(s)) ELSE s
RECURSIVE TrimSpacesRight(_)
TrimSpacesRight(s) ==
    IF s = <<>> THEN <<>>
    ELSE IF s[Len(s)] = " " THEN TrimSpacesRight(SubSeq(s, 1, Len(s) - 1)) ELSE s
TrimSpaces(s) == TrimSpacesRight(TrimSpacesLeft(s))
\* Array.prototype.join(sep) of strings
RECURSIVE JoinWith(_, _)
JoinWith(pieces, sep) ==
    IF pieces = <<>> THEN <<>>
    ELSE IF Len(pieces) = 1 THEN pieces[1]
    ELSE pieces[1] \o <<sep>> \o JoinWith(Tail(pieces), sep)
\* a code value coerced to a string: an array joins its lines with ","
CodeToString(code) ==
    JoinWith([k \in 1..Len(code.items) |-> <<code.items[k]>>], ",")
\* item.code is truthy
HasCode(code) == code.kind = "array" \/ (code.kind = "string" /\ code.items # <<"">>)

\* a property of a null element is read: a TypeError
RECURSIVE ReadsNull(_)
ReadsNull(content) ==
    /\ content.has
    /\ \E k \in 1..Len(content.items) :
         LET item == content.items[k] IN
         \/ item.type = "null"
         \/ item.inlineContent.has /\ ReadsNull(item.inlineContent)
         \/ ~item.inlineContent.has /\ item.content.has /\ ReadsNull(item.content)

\* DocCArchiveManager.extractTextFromContent
RECURSIVE DocCArchiveManager_extractItems(_)
DocCArchiveManager_extractItems(items) ==
    IF items = <<>> THEN <<>>
    ELSE LET item == Head(items)
             piece ==
                 IF item.type = "text" /\ item.text # "" THEN Spaced(<<item.text>>)
                 ELSE IF item.type = "codeVoice" /\ HasCode(item.code)
                 THEN Spaced(CodeToString(item.code))
                 ELSE IF item.inlineContent.has
                 THEN Spaced(TrimSpaces(
                          DocCArchiveManager_extractItems(item.inlineContent.items)))
                 ELSE IF item.content.has
                 THEN Spaced(TrimSpaces(
                          DocCArchiveManager_extractItems(item.content.items)))
                 ELSE <<>>
         IN  piece \o DocCArchiveManager_extractItems(Tail(items))
DocCArchiveManager_extractTextFromContent(content) ==
    IF ~content.has THEN Returned(<<>>)
    ELSE IF ReadsNull(content) THEN Thrown("TypeError")
    ELSE Returned(TrimSpaces(DocCArchiveManager_extractItems(content.items)))

\* SemanticSearchEngine.extractTextFromContent
RECURSIVE SemanticSearchEngine_extractItems(_)
SemanticSearchEngine_extractItems(items) ==
    IF items = <<>> THEN <<>>
    ELSE LET item == Head(items)
             piece ==
                 IF item.type = "text" /\ item.text # "" THEN Spaced(<<item.text>>)
                 ELSE IF item.type = "codeVoice" /\ HasCode(item.code)
                 THEN Spaced(CodeToString(item.code))
                 ELSE IF item.inlineContent.has
                 THEN Spaced(TrimSpaces(
                          SemanticSearchEngine_extractItems(item.inlineContent.items)))
                 ELSE IF item.content.has
                 THEN Spaced(TrimSpaces(
                          SemanticSearchEngine_extractItems(item.content.items)))
                 ELSE <<>>
         IN  piece \o SemanticSearchEngine_extractItems(Tail(items))
SemanticSearchEngine_extractTextFromContent(content) ==
    IF ~content.has THEN Returned(<<>>)
    ELSE IF ReadsNull(content) THEN Thrown("TypeError")
    ELSE Returned(TrimSpaces(SemanticSearchEngine_extractItems(content.items)))

\* TextSearchEngine.extractTextFromInlineContent: map, then join(' ')
InlineReadsNull(inlineContent) ==
    inlineContent.has /\ \E k \in 1..Len(inlineContent.items) :
                             inlineContent.items[k].type = "null"
InlinePiece(item) ==
    IF item.type = "string" THEN <<item.text>>
    ELSE IF item.text # "" THEN <<item.text>>
    ELSE IF HasCode(item.code) THEN CodeToString(item.code)
    ELSE <<>>
TextSearchEngine_inlineItems(inlineContent) ==
    IF ~inlineContent.has THEN <<>>
    ELSE JoinWith([k \in 1..Len(inlineContent.items) |->
                      InlinePiece(inlineContent.items[k])], " ")
TextSearchEngine_extractTextFromInlineContent(inlineContent) ==
    IF InlineReadsNull(inlineContent) THEN Thrown("TypeError")
    ELSE Returned(TextSearchEngine_inlineItems(inlineContent))

\* TextSearchEngine.extractTextFromContent
RECURSIVE TextReadsNull(_)
TextReadsNull(content) ==
    /\ content.has
    /\ \E k \in 1..Len(content.items) :
         LET item == content.items[k] IN
         \/ item.type = "null"
         \/ item.inlineContent.has /\ InlineReadsNull(item.inlineContent)
         \/ /\ ~item.inlineContent.has
            /\ ~(item.type = "heading" /\ item.text # "")
            /\ ~(item.type = "codeListing" /\ HasCode(item.code))
            /\ item.content.has /\ TextReadsNull(item.content)
RECURSIVE TextSearchEngine_extractItems(_)
TextSearchEngine_extractItems(items) ==
    IF items = <<>> THEN <<>>
    ELSE LET item == Head(items)
             piece ==
                 IF item.type = "string" THEN Spaced(<<item.text>>)
                 ELSE IF item.type = "paragraph" /\ item.inlineContent.has
                 THEN Spaced(TextSearchEngine_inlineItems(item.inlineContent))
                 ELSE IF item.type = "heading" /\ item.text # ""
                 THEN Spaced(<<item.text>>)
                 ELSE IF item.type = "codeListing" /\ HasCode(item.code)
                 THEN IF item.code.kind = "array"
                      THEN Spaced(JoinWith([k \in 1..Len(item.code.items) |->
                                               <<item.code.items[k]>>], " "))
                      ELSE Spaced(CodeToString(item.code))
                 ELSE IF item.inlineContent.has
                 THEN Spaced(TextSearchEngine_inlineItems(item.inlineContent))
                 ELSE IF item.content.has
                 THEN Spaced(TextSearchEngine_extractItems(item.content.items))
                 ELSE <<>>
         IN  piece \o TextSearchEngine_extractItems(Tail(items))
TextSearchEngine_extractTextFromContent(content) ==
    IF ~content.has THEN Returned(<<>>)
    ELSE IF TextReadsNull(content) THEN Thrown("TypeError")
    ELSE Returned(TextSearchEngine_extractItems(content.items))

\* one call of one extractor on the content drawn
exCall(path, out) ==
    /\ exPath = "none"
    /\ exPath' = path
    /\ exOut' = out
    /\ UNCHANGED <<exTree, exOthers>>

DocCArchiveManager_extractCall ==
    exCall("manager", DocCArchiveManager_extractTextFromContent(exTree))

SemanticSearchEngine_extractCall ==
    exCall("vector", SemanticSearchEngine_extractTextFromContent(exTree))

TextSearchEngine_extractCall ==
    exCall("lexical", TextSearchEngine_extractTextFromContent(exTree))

TextSearchEngine_extractInlineCall ==
    exCall("inline", TextSearchEngine_extractTextFromInlineContent(exTree))

InitExtract ==
    /\ exTree \in ContentTrees
    /\ exPath = "none"
    /\ exOut = Returned(<<>>)
    /\ ckIdle
    /\ rsIdle
    /\ ixIdle
    /\ pgIdle
    /\ laIdle
    /\ coIdle

NextExtract ==
    \/ DocCArchiveManager_extractCall
    \/ SemanticSearchEngine_extractCall
    \/ TextSearchEngine_extractCall
    \/ TextSearchEngine_extractInlineCall

SpecExtract == InitExtract /\ [][NextExtract]_vars

-----------------------------------------------------------------------------
(* listArchives (docc-manager.ts 78-145)                                   *)
(*                                                                         *)
(* A root is unreadable, or lists for each archive name whether a          *)
(* <name>.doccarchive directory is there, what its metadata.json holds     *)
(* ("none": missing or not parseable) and how many documents its data      *)
(* directory counts.                                                       *)

NoEntry == [present |-> FALSE, metadata |-> "none", symbolCount |-> 0]
Entries ==
    {NoEntry} \cup [present : {TRUE}, metadata : {"none", "x", "y"}, symbolCount : {0, 1}]
UnreadableRoot == [readable |-> FALSE, entries |-> [n \in ArchiveNames |-> NoEntry]]
RootListings ==
    {UnreadableRoot} \cup [readable : {TRUE}, entries : [ArchiveNames -> Entries]]

\* the order in which readdir lists the names
EntryOrder == <<"A", "B">>

\* loadArchiveMetadata(entry.name, archivePath): the cache under the archive
\* name first, then metadata.json of the one root; only a hit is cached
loadArchiveMetadata(cache, name, r) ==
    IF name \in DOMAIN cache THEN [cache |-> cache, metadata |-> cache[name]]
    ELSE LET metadata == laFs[r].entries[name].metadata
         IN  IF metadata = "none" THEN [cache |-> cache, metadata |-> "none"]
             ELSE [cache |-> (name :> metadata) @@ cache, metadata |-> metadata]

\* the inner loop of listArchives over the entries of root r
RECURSIVE listEntries(_, _, _)
listEntries(r, k, acc) ==
    IF k > Len(EntryOrder) THEN acc
    ELSE LET name == EntryOrder[k]
             entry == laFs[r].entries[name]
             loaded == loadArchiveMetadata(acc.cache, name, r)
         IN  IF ~entry.present THEN listEntries(r, k + 1, acc)
             ELSE IF loaded.metadata = "none"
             THEN listEntries(r, k + 1, [acc EXCEPT !.cache = loaded.cache])
             ELSE listEntries(r, k + 1,
                     [cache |-> loaded.cache,
                      archives |-> Append(acc.archives,
                          [name |-> name,
                           displayName |-> loaded.metadata,
                           bundleIdentifier |-> loaded.metadata,
                           path |-> <<r, name>>,
                           symbolCount |-> entry.symbolCount])])

\* a listing that gives up at the first root it cannot read
RECURSIVE listRootsUntilError(_, _)
listRootsUntilError(r, acc) ==
    IF r > NumRoots THEN acc
    ELSE IF ~laFs[r].readable THEN acc
    ELSE listRootsUntilError(r + 1, listEntries(r, 1, acc))

\* the outer loop of listArchives: a root whose readdir throws is logged
RECURSIVE listRoots(_, _)
listRoots(r, acc) ==
    IF r > NumRoots THEN acc
    ELSE IF ~laFs[r].readable THEN listRoots(r + 1, acc)
    ELSE listRoots(r + 1, listEntries(r, 1, acc))

listArchives ==
    LET done == listRoots(1, [cache |-> archiveCache, archives |-> <<>>])
    IN  /\ archiveCache' = done.cache
        /\ laLast' = [op |-> "listArchives", outcome |-> "ok", archives |-> done.archives]
        /\ UNCHANGED <<laFs, laOthers>>

InitList ==
    /\ laFs \in [Roots -> RootListings]
    /\ archiveCache = <<>>
    /\ laLast = [op |-> "none", outcome |-> "ok", archives |-> <<>>]
    /\ ckIdle
    /\ rsIdle
    /\ ixIdle
    /\ pgIdle
    /\ exIdle
    /\ coIdle

NextList == listArchives

SpecList == InitList /\ [][NextList]_vars

-----------------------------------------------------------------------------
(* The manager's bulk operations: browseArchive, search and the index      *)
(* builder's run over the archives (docc-manager.ts, index-builder.ts)     *)

\* a file whose text is not JSON
Malformed(n) == [name |-> n, dir |-> FALSE, kids |-> <<>>, malformed |-> TRUE]

\* data directories with a malformed file and with one base name in two
\* directories
ManagerTrees ==
    { <<File("Foo")>>,
      <<Malformed("Bad"), File("Foo")>>,
      <<Dir("documentation", <<Malformed("Bad"), File("Foo")>>)>>,
      <<Dir("documentation", <<Malformed("Foo")>>), Dir("tutorials", <<File("Foo")>>)>>,
      <<Dir("documentation", <<File("Foo")>>), Dir("tutorials", <<File("Foo")>>)>> }

\* ids, browse paths and queries a caller may pass
ManagerIds == { <<"Foo">>, <<"Missing">>, <<"article:Foo">>, <<"..", "metadata">> }
BrowsePaths == { <<>>, <<"documentation">>, <<"missing">>, <<"..">> }
SearchQueries == { "foo", "zzz" }
OptionSamples ==
    { DefaultOptions,
      [includeReferences |-> TRUE, maxSections |-> 1, summaryOnly |-> FALSE],
      [includeReferences |-> FALSE, maxSections |-> 10, summaryOnly |-> TRUE] }

\* the first root that holds the archive (the loop with break of
\* browseArchive and searchInArchive), 0 when none does
RECURSIVE firstArchiveRoot(_, _)
firstArchiveRoot(r, archiveName) ==
    IF r > NumRoots THEN 0
    ELSE IF ArchiveAt(r, archiveName).present THEN r
    ELSE firstArchiveRoot(r + 1, archiveName)

\* fs.readdir of a normalized path below data: the entries in a one-element
\* sequence, or Null when the path names no directory; beside data the
\* archive directory holds data and metadata.json
RECURSIVE readdir(_, _)
readdir(entries, comps) ==
    IF comps = <<>> THEN <<entries>>
    ELSE IF comps = <<"..">> THEN <<(<<Dir("data", entries), File("metadata")>>)>>
    ELSE IF comps[1] = ".." THEN Null
    ELSE LET sub == SubDir(entries, comps[1]) IN
         IF sub = Null THEN Null ELSE readdir(sub[1], Tail(comps))

\* one entry of the structure browseArchive returns
browseEntry(e, browsePath, r) ==
    IF e.dir
    THEN [name |-> e.name, type |-> "directory", path |-> Append(browsePath, e.name),
          at |-> <<r>> \o Normalize(Append(browsePath, e.name))]
    ELSE [name |-> e.name, type |-> IF ParsesEntry(e) THEN "symbol" ELSE "file",
          path |-> <<>>,
          at |-> <<r>> \o Normalize(Append(browsePath, e.name))]

\* browseArchive(archiveName, browsePath): throws for an archive under no
\* root and for a path that cannot be listed
browseArchiveResult(archiveName, browsePath) ==
    LET r == firstArchiveRoot(1, archiveName)
        listing == readdir(ArchiveAt(r, archiveName).data, Normalize(browsePath))
    IN  IF r = 0 THEN [outcome |-> "error", entries |-> <<>>]
        ELSE IF listing = Null THEN [outcome |-> "error", entries |-> <<>>]
        ELSE [outcome |-> "ok",
              entries |-> [k \in 1..Len(listing[1]) |->
                              browseEntry(listing[1][k], browsePath, r)]]

browseArchive ==
    \E archiveName \in ArchiveNames, browsePath \in BrowsePaths :
        /\ rsLast' = [op |-> "browseArchive", archive |-> archiveName,
                      path |-> browsePath,
                      result |-> browseArchiveResult(archiveName, browsePath)]
        /\ UNCHANGED <<fs, symbolCache, rsOthers>>

\* findJsonFiles(dirPath): the files below a directory, depth first
RECURSIVE findJsonFiles(_, _)
findJsonFiles(entries, at) ==
    IF entries = <<>> THEN <<>>
    ELSE LET e == Head(entries) IN
         (IF e.dir THEN findJsonFiles(e.kids, Append(at, e.name))
          ELSE <<Append(at, e.name)>>)
         \o findJsonFiles(Tail(entries), at)

\* the body of the loop of searchInArchive for one file: a file that does
\* not parse is skipped; the title of a document is its file's base name
matchesQuery(filePath, query) == toLowerCase(filePath[Len(filePath)]) = query

RECURSIVE searchFiles(_, _)
searchFiles(files, query) ==
    IF files = <<>> THEN <<>>
    ELSE IF ~Parses(Head(files)) THEN searchFiles(Tail(files), query)
    ELSE (IF matchesQuery(Head(files), query) THEN <<Head(files)>> ELSE <<>>)
         \o searchFiles(Tail(files), query)

\* searchInArchive(query, archiveName, options): the first root that holds
\* the archive, its first SearchFileCap files
searchInArchive(query, archiveName) ==
    LET r == firstArchiveRoot(1, archiveName) IN
    IF r = 0 THEN <<>>
    ELSE searchFiles(
             Slice(findJsonFiles(ArchiveAt(r, archiveName).data, <<r>>), 0, SearchFileCap),
             query)

\* search(query, {archive}): the results of the one archive, cut
search ==
    \E query \in SearchQueries, archiveName \in ArchiveNames :
        /\ rsLast' = [op |-> "search", query |-> query, archive |-> archiveName,
                      result |-> [outcome |-> "ok",
                                  results |-> Slice(searchInArchive(query, archiveName),
                                                    0, SearchResultCap)]]
        /\ UNCHANGED <<fs, symbolCache, rsOthers>>

\* getAllSymbolIds(doccManager, archiveName): browseRecursively from the data
\* directory; a symbol entry gives its name without .json as an id, a
\* directory entry is browsed by its path, a failing browse is logged
RECURSIVE browseRecursively(_, _)
RECURSIVE browseEntries(_, _, _)
browseEntries(archiveName, entries, k) ==
    IF k > Len(entries) THEN <<>>
    ELSE (IF entries[k].type = "symbol"
          THEN <<[id |-> <<entries[k].name>>, at |-> entries[k].at]>>
          ELSE IF entries[k].type = "directory"
          THEN browseRecursively(archiveName, entries[k].path)
          ELSE <<>>)
         \o browseEntries(archiveName, entries, k + 1)
browseRecursively(archiveName, browsePath) ==
    LET structure == browseArchiveResult(archiveName, browsePath) IN
    IF structure.outcome = "error" THEN <<>>
    ELSE browseEntries(archiveName, structure.entries, 1)
getAllSymbolIds(archiveName) == browseRecursively(archiveName, <<>>)

\* the options of the builder's getSymbol calls (index-builder.ts 98-102)
BuilderOptions == [includeReferences |-> FALSE, maxSections |-> 20, summaryOnly |-> FALSE]

\* the loop of buildIndex over the symbol ids of one archive: the documents
\* getSymbol returns are handed on, a null is passed over
RECURSIVE buildSymbols(_, _, _)
buildSymbols(archiveName, symbolIds, acc) ==
    IF symbolIds = <<>> THEN acc
    ELSE LET got == getSymbolResult(acc.cache, Head(symbolIds).id, archiveName,
                                    BuilderOptions)
         IN  buildSymbols(archiveName, Tail(symbolIds),
                 [cache |-> got.cache,
                  ingested |-> IF got.result = NullDocument THEN acc.ingested
                               ELSE Append(acc.ingested,
                                        [entry |-> Head(symbolIds).at,
                                         document |-> got.result])])

\* the archives listArchives reports to the builder: one record per root
\* that holds the archive
RECURSIVE builderArchives(_)
builderArchives(r) ==
    IF r > NumRoots THEN <<>>
    ELSE (IF ArchiveAt(r, "A").present THEN <<"A">> ELSE <<>>) \o builderArchives(r + 1)

RECURSIVE buildArchives(_, _)
buildArchives(archives, acc) ==
    IF archives = <<>> THEN acc
    ELSE buildArchives(Tail(archives),
             buildSymbols(Head(archives), getAllSymbolIds(Head(archives)), acc))

\* processDocCContent and addToIndex of the builder's engine for the documents
\* handed on: every document file holds an abstract above the floor, whose
\* text is the file's base name, and gives one chunk and one record
builderRecords(ingested) ==
    [k \in 1..Len(ingested) |->
        LET content == <<ingested[k].document.file[Len(ingested[k].document.file)]>> IN
        [content |-> content, archive |-> "A", embedding |-> EmbedModel(content)]]

\* buildIndex, one run of the builder process: a manager and an engine of its
\* own, initialize (a failure ends the run), clearIndex or loadIndex, every
\* archive and symbol id, then the final save, whose failure is only logged
buildIndex ==
    \E rebuild \in BOOLEAN :
      LET done == buildArchives(builderArchives(1), [cache |-> <<>>, ingested |-> <<>>])
          loaded == IF ~rebuild /\ ixFile.state = "json" THEN ParseEmbeddings(ixFile.body)
                    ELSE <<>>
          index == loaded \o builderRecords(done.ingested)
      IN  \/ /\ Len(index) <= MaxRecords
             /\ embedder' = TRUE
             /\ embeddings' = index
             /\ \/ /\ ixFile' = FileOf(StringifyEmbeddings(index))
                   /\ ixSaved' = [ok |-> TRUE, documents |-> <<>>, tfidf |-> <<>>,
                                  embeddings |-> index]
                \/ /\ ixFile' \in {ixFile, FileCorrupt}
                   /\ ixSaved' = NoSave
             /\ rsLast' = [op |-> "buildIndex", rebuild |-> rebuild, before |-> ixFile,
                           result |-> [outcome |-> "ok", ingested |-> done.ingested,
                                       saved |-> TRUE]]
          \/ /\ UNCHANGED <<embedder, embeddings, ixFile, ixSaved>>
             /\ rsLast' = [op |-> "buildIndex", rebuild |-> rebuild, before |-> ixFile,
                           result |-> [outcome |-> "error", ingested |-> <<>>,
                                       saved |-> FALSE]]
    /\ ixEngine' = "vector"
    /\ ixFresh' = FALSE
    /\ ixLast' = [op |-> "buildIndex"]
    /\ UNCHANGED <<fs, symbolCache, documents, tfidf, ckVars, pgVars, exVars, laVars,
                   coVars>>

getSymbolWithOptions == getSymbolOver(ManagerIds, OptionSamples) /\ UNCHANGED <<fs, rsOthers>>
getArticleById == getArticleOver(ManagerIds) /\ UNCHANGED <<fs, rsOthers>>

\* a manager over one root that holds the archive or not
InitManager ==
    /\ fs \in {[r \in Roots |-> IF r = 1 THEN a ELSE NoArchive] :
                  a \in {Archive(t) : t \in ManagerTrees} \cup {NoArchive}}
    /\ symbolCache = <<>>
    /\ rsLast = [op |-> "none"]
    /\ ckIdle
    /\ ixIdle
    /\ pgIdle
    /\ exIdle
    /\ laIdle
    /\ coIdle

NextManager ==
    \/ getSymbolWithOptions
    \/ getArticleById
    \/ browseArchive
    \/ search

SpecManager == InitManager /\ [][NextManager]_vars

\* the bulk operations over the same archives: searches of a server and the
\* runs of the builder process
NextBulk == search \/ buildIndex

SpecBulk == InitManager /\ [][NextBulk]_vars

-----------------------------------------------------------------------------
(* Concurrent calls on one engine: each await is a point at which another  *)
(* call may run (index.ts 457-544, text-search.ts 235-348)                 *)

coVector == ixEngine = "vector"
coRest == UNCHANGED <<ixEngine, embedder, ixFresh, ixSaved, ixLast, coOthers>>

\* the record addToIndex pushes for a chunk
vectorRecord(chunk) ==
    [content |-> chunk.content, archive |-> chunk.archive,
     embedding |-> EmbedModel(chunk.content)]

\* addToIndex(chunks) up to its first await: the vector engine awaits the
\* embedding of the first chunk; the lexical engine has no await and runs
\* to its end
addToIndex_call ==
    /\ tasks.add.pc = "idle"
    /\ \E chunks \in ChunkLists :
         IF coVector
         THEN /\ tasks' = [tasks EXCEPT !.add = [pc |-> "embedding", chunks |-> chunks,
                                                 next |-> 1, afterLoad |-> FALSE]]
              /\ UNCHANGED <<documents, tfidf>>
         ELSE /\ documents' = documents \o chunks
              /\ tfidf' = tfidf \o [k \in 1..Len(chunks) |-> cleanText(chunks[k].content)]
              /\ tasks' = [tasks EXCEPT !.add = [pc |-> "done", chunks |-> chunks,
                                                 next |-> Len(chunks) + 1,
                                                 afterLoad |-> tasks.load.pc = "done"]]
    /\ UNCHANGED <<embeddings, ixFile>>
    /\ coRest

\* the vector addToIndex after an embedding arrived: push the record, then
\* await the next embedding or return
addToIndex_resume ==
    /\ tasks.add.pc = "embedding"
    /\ embeddings' = Append(embeddings, vectorRecord(tasks.add.chunks[tasks.add.next]))
    /\ tasks' = IF tasks.add.next = Len(tasks.add.chunks)
                THEN [tasks EXCEPT !.add.pc = "done", !.add.next = @ + 1,
                                   !.add.afterLoad = tasks.load.pc = "done"]
                ELSE [tasks EXCEPT !.add.next = @ + 1]
    /\ UNCHANGED <<documents, tfidf, ixFile>>
    /\ coRest

\* loadIndex up to await fs.readFile
loadIndex_call ==
    /\ tasks.load.pc = "idle"
    /\ tasks' = [tasks EXCEPT !.load.pc = "reading"]
    /\ UNCHANGED <<documents, tfidf, embeddings, ixFile>>
    /\ coRest

\* loadIndex after the read: parse and replace the index
loadIndex_resume ==
    /\ tasks.load.pc = "reading"
    /\ IF coVector
       THEN LET got == IF ixFile.state = "json" THEN ParseEmbeddings(ixFile.body) ELSE <<>>
            IN  /\ embeddings' = got
                /\ tasks' = [tasks EXCEPT !.load = [pc |-> "done", got |-> got]]
                /\ UNCHANGED <<documents, tfidf>>
       ELSE IF ixFile.state = "json"
       THEN LET got == ParseDocuments(ixFile.body)
            IN  /\ documents' = got
                /\ tfidf' = RebuildCorpus(got)
                /\ tasks' = [tasks EXCEPT !.load = [pc |-> "done", got |-> got]]
                /\ UNCHANGED embeddings
       ELSE /\ tasks' = [tasks EXCEPT !.load = [pc |-> "done", got |-> documents]]
            /\ UNCHANGED <<documents, tfidf, embeddings>>
    /\ UNCHANGED ixFile
    /\ coRest

\* saveIndex up to its first await: the vector engine awaits fs.mkdir, the
\* lexical engine stringifies its records and awaits fs.writeFile
saveIndex_call ==
    /\ tasks.save.pc = "idle"
    /\ tasks' = IF coVector
                THEN [tasks EXCEPT !.save.pc = "mkdir"]
                ELSE [tasks EXCEPT !.save = [pc |-> "writing",
                                             snapshot |-> StringifyDocuments(documents)]]
    /\ UNCHANGED <<documents, tfidf, embeddings, ixFile>>
    /\ coRest

\* the vector saveIndex after mkdir: stringify the records, await writeFile
saveIndex_stringify ==
    /\ tasks.save.pc = "mkdir"
    /\ tasks' = [tasks EXCEPT !.save = [pc |-> "writing",
                                        snapshot |-> StringifyEmbeddings(embeddings)]]
    /\ UNCHANGED <<documents, tfidf, embeddings, ixFile>>
    /\ coRest

\* saveIndex after writeFile wrote the text it was given
saveIndex_resume ==
    /\ tasks.save.pc = "writing"
    /\ ixFile' = FileOf(tasks.save.snapshot)
    /\ tasks' = [tasks EXCEPT !.save.pc = "done"]
    /\ UNCHANGED <<documents, tfidf, embeddings>>
    /\ coRest

\* search up to its first await: the vector engine awaits the embedding of
\* the query, the lexical engine has no await and runs to its end
search_call ==
    /\ tasks.search.pc = "idle"
    /\ tasks' = [tasks EXCEPT !.search.pc = IF coVector THEN "embedding" ELSE "done"]
    /\ UNCHANGED <<documents, tfidf, embeddings, ixFile>>
    /\ coRest

\* the vector search after the embedding arrived: rank and return
search_resume ==
    /\ tasks.search.pc = "embedding"
    /\ tasks' = [tasks EXCEPT !.search.pc = "done"]
    /\ UNCHANGED <<documents, tfidf, embeddings, ixFile>>
    /\ coRest

\* one engine with its model loaded, over whatever sound index file it finds
InitConcurrent ==
    /\ ixEngine \in {"text", "vector"}
    /\ documents = <<>>
    /\ tfidf = <<>>
    /\ embedder = TRUE
    /\ embeddings = <<>>
    /\ ixFile \in IF ixEngine = "text" THEN TextFileSamples ELSE VectorFileSamples
    /\ ixFresh = TRUE
    /\ ixSaved = NoSave
    /\ ixLast = [op |-> "none"]
    /\ coIdle
    /\ ckIdle
    /\ rsIdle
    /\ pgIdle
    /\ exIdle
    /\ laIdle

NextConcurrent ==
    \/ addToIndex_call
    \/ addToIndex_resume
    \/ loadIndex_call
    \/ loadIndex_resume
    \/ saveIndex_call
    \/ saveIndex_stringify
    \/ saveIndex_resume
    \/ search_call
    \/ search_resume

SpecConcurrent == InitConcurrent /\ [][NextConcurrent]_vars

-----------------------------------------------------------------------------
(* Claims about the resolver *)

\* the per-root lookup of the last call in root r
rsProbe(r) ==
    IF rsLast.op = "getSymbol"
    THEN probeSymbol(r, ArchiveAt(r, rsLast.archive).data, rsLast.id)
    ELSE probeArticle(r, ArchiveAt(r, rsLast.archive).data, rsLast.id)

\* the roots that hold the archive of the last call, and those among them in
\* which the per-root lookup finds the document
rsArchiveRoots == {r \in Roots : ArchiveAt(r, rsLast.archive).present}
rsDocumentRoots == {r \in rsArchiveRoots : rsProbe(r) # Null}
FirstOf(S) == CHOOSE r \in S : \A q \in S : r <= q

\* C1 as claimed: getSymbol and getArticle use one search root per call, the
\* first root (in configured order) that holds the archive directory; if the
\* document is absent there the result is null and no later root is probed.
C1_FirstRootExclusive ==
    (rsLast.op \in {"getSymbol", "getArticle"} /\ rsArchiveRoots # {})
        => rsLast.result.file = rsProbe(FirstOf(rsArchiveRoots))

\* C1 as amended: the roots are probed in configured order; the result is the
\* document of the first root that holds the archive and in which the lookup
\* finds the document, and it is null only if no root holding the archive
\* yields the document.
C1_FirstRootWithDocument ==
    rsLast.op \in {"getSymbol", "getArticle"}
        => IF rsDocumentRoots = {} THEN rsLast.result = NullDocument
           ELSE rsLast.result.file = rsProbe(FirstOf(rsDocumentRoots))

\* a call answered from a later root although the first root holds the archive
C1_Witness ==
    /\ rsLast.op = "getSymbol"
    /\ 1 \in rsArchiveRoots
    /\ rsProbe(1) = Null
    /\ rsLast.result # NullDocument

-----------------------------------------------------------------------------
(* Claims about chunkText *)

\* C2: chunkText terminates for every text and every (maxTokens, overlap) in
\* both engines: when overlap >= budget (the step budget - overlap is zero or
\* negative), the call emits one chunk and stops, i.e. it has returned after
\* its first iteration with at most one chunk.
C2_EmitOnceWhenNoStep ==
    (ckPc # "idle" /\ ckOvl >= ckMax /\ ckIter >= 1)
        => (ckPc = "done" /\ Len(ckChunks) <= 1)

\* C3: for every non-empty text and maxTokens > overlap >= 0, chunkText of
\* either engine returns at least one chunk and every chunk returned holds at
\* most floor(maxTokens * 0.75) words.
C3_ChunkWordBound ==
    (ckPc = "done" /\ NonEmptyText(ckWords) /\ ckMax > ckOvl)
        => /\ Len(ckChunks) >= 1
           /\ \A k \in 1..Len(ckChunks) :
                 WordCount(ckChunks[k]) <= wordsPerChunk(ckMax)

\* the index of the first window [k*step, k*step + budget) whose end reaches
\* the word count (step > 0)
RECURSIVE LastWindow(_, _, _, _)
LastWindow(len, budget, step, k) ==
    IF k * step + budget >= len THEN k ELSE LastWindow(len, budget, step, k + 1)

\* the window sequence the chunker is specified to emit: every non-empty
\* trimmed window up to the first one whose end reaches the word count
NonEmptyWindow(w) == Trim(w) # <<>>
WindowSequence(words, budget, step) ==
    IF Len(words) <= budget THEN <<words>>
    ELSE SelectSeq([k \in 1..(LastWindow(Len(words), budget, step, 0) + 1) |->
                       Slice(words, (k - 1) * step, (k - 1) * step + budget)],
                   NonEmptyWindow)

\* C4: a text of at most budget words comes back as one chunk holding the whole
\* text; otherwise chunk k is the words [k*step, k*step + budget), and the last
\* chunk is the first whose window end reaches the word count, with no chunk
\* after it. Stated for texts without surrounding whitespace, whose split has
\* no empty string, so that the word count is the length of the split.
C4_WindowSequence ==
    (ckPc = "done" /\ ckStep > 0 /\ WordCount(ckWords) = Len(ckWords))
        => LET want == WindowSequence(ckWords, ckBudget, ckStep) IN
           /\ Len(ckChunks) = Len(want)
           /\ \A k \in 1..Len(want) : Trim(ckChunks[k]) = Trim(want[k])

-----------------------------------------------------------------------------
(* Claims about the search engines *)

ixVector == ixEngine = "vector"
ixText == ixEngine = "text"
ixSearchReturned == ixLast.op = "search" /\ ixLast.outcome = "ok"

\* C5: every score a vector search returns is a number, never NaN, and the
\* results are in descending order of their scores, also when the index holds
\* an all-zero embedding
C5_NumericScores ==
    (ixVector /\ ixSearchReturned)
        => /\ \A k \in 1..Len(ixLast.results) : ~ixLast.results[k].score.nan
           /\ \A k \in 1..(Len(ixLast.results) - 1) :
                  ixLast.results[k].score.val >= ixLast.results[k + 1].score.val

\* C6: a generateEmbedding or search call on a vector engine without a loaded
\* model ends with the not-initialized error, whatever the index holds, and
\* leaves the embedder, the stored embeddings and the index file as they were
C6_NotInitializedFailsFast ==
    [][ (ixVector /\ ~embedder /\ ixLast'.op \in {"generateEmbedding", "search"})
            => /\ ixLast'.outcome = "NotInitialized"
               /\ embedder' = embedder
               /\ embeddings' = embeddings
               /\ ixFile' = ixFile ]_vars

\* C6 happens: a search on a non-empty index without a model was refused
C6_Witness ==
    /\ ixVector /\ ~embedder /\ embeddings # <<>>
    /\ ixLast.op = "search" /\ ixLast.outcome = "NotInitialized"

\* C7: a lexical search that returns gives the min(limit, number of candidates)
\* best candidates, a candidate being a document of positive measure for the
\* normalized query that is in the filter's archive when a filter is given;
\* the scores are positive and non-increasing
C7_LexicalSearch ==
    (ixText /\ ixSearchReturned)
        => LET q == cleanText(ixLast.query)
               f == ixLast.archiveFilter
               res == ixLast.results
               Cand == {i \in 1..Min(Len(documents), Len(tfidf)) :
                           /\ measure(q, tfidf, i) > 0
                           /\ f # "" => documents[i].archive = f}
               n == Min(ixLast.limit, Cardinality(Cand))
           IN  /\ Len(res) = n
               /\ \A k \in 1..n : ~res[k].score.nan /\ res[k].score.val > 0
               /\ \A k \in 1..(n - 1) : res[k].score.val >= res[k + 1].score.val
               /\ f # "" => \A k \in 1..n : res[k].archive = f
               /\ \E pick \in [1..n -> Cand] :
                    /\ \A j, k \in 1..n : pick[j] = pick[k] => j = k
                    /\ \A k \in 1..n :
                           res[k] = [content |-> documents[pick[k]].content,
                                     archive |-> documents[pick[k]].archive,
                                     score |-> Number(measure(q, tfidf, pick[k]))]
                    /\ \A c \in Cand :
                           (n > 0 /\ \A k \in 1..n : pick[k] # c)
                               => measure(q, tfidf, c) <= measure(q, tfidf, pick[n])

\* C7 happens: a filtered search over three documents was cut to its limit
\* and left a positive-scoring document of the other archive out
C7_Witness ==
    /\ ixText /\ ixSearchReturned
    /\ Len(documents) = 3
    /\ ixLast.archiveFilter = "A" /\ ixLast.limit = 1
    /\ Len(ixLast.results) = 1
    /\ Cardinality({i \in 1..3 : measure(cleanText(ixLast.query), tfidf, i) > 0}) = 3

\* the lexical order of operations applied to the stored embeddings: score
\* and sort every record, then filter, then truncate
RankAllThenFilter(records, query, limit, archiveFilter) ==
    LET scored == [k \in 1..Len(records) |->
                     [content |-> records[k].content,
                      archive |-> records[k].archive,
                      score |-> cosineSimilarity(EmbedModel(query), records[k].embedding)]]
    IN  {Slice(FilterByArchive(sorted, archiveFilter), 0, limit) :
            sorted \in SortOutcomes(scored)}

\* C8: a vector search with an archive filter returns what ranking every
\* stored record, then filtering, then truncating returns
C8_FilterAfterRanking ==
    (ixVector /\ ixSearchReturned /\ ixLast.archiveFilter # "" /\ embeddings # <<>>)
        => \A ref \in RankAllThenFilter(embeddings, ixLast.query, ixLast.limit,
                                        ixLast.archiveFilter) :
               ixLast.results = ref

\* the saved records are records addToIndex pushes: none is the null entry
\* that only a hand-damaged index file brings in (see C26)
ixSavedPushed ==
    \A k \in 1..Len(ixSaved.documents) : ixSaved.documents[k] # NullRecord

\* C9: loadIndex on a fresh engine, reading the file a saveIndex wrote after
\* addToIndex and clearIndex calls, holds the saving engine's records in their
\* order, and a lexical engine then answers every search as the saving engine
\* does
C9_RoundTrip ==
    (ixLast.op = "loadIndex" /\ ixLast.fresh /\ ixSaved.ok /\ ixSavedPushed)
        => IF ixText
           THEN /\ documents = ixSaved.documents
                /\ \A query \in Queries, limit \in 0..MaxLimit, f \in ArchiveFilters :
                       TextSearchEngine_search(documents, tfidf, query, limit, f)
                         = TextSearchEngine_search(ixSaved.documents, ixSaved.tfidf,
                                                   query, limit, f)
           ELSE embeddings = ixSaved.embeddings

\* C9 happens: a fresh engine loaded a saved index of two or more records
C9_Witness ==
    /\ ixLast.op = "loadIndex" /\ ixLast.fresh /\ ixSaved.ok /\ ixSavedPushed
    /\ Len(ixSaved.documents) + Len(ixSaved.embeddings) >= 2
    /\ Len(documents) + Len(embeddings) >= 2

\* C10: after loadIndex found the index file missing or unparseable the call
\* returned without an error and the engine holds no records
C10_LoadFailureEmpties ==
    (ixLast.op = "loadIndex" /\ ixLast.file # "json")
        => /\ ixLast.outcome = "ok"
           /\ documents = <<>> /\ tfidf = <<>>
           /\ embeddings = <<>>

\* C11: a saveIndex call ends without an error reaching the caller, in both
\* engines, also when the write of the index file fails
C11_SaveFailureQuiet ==
    ixLast.op = "saveIndex" => ixLast.outcome = "ok"

-----------------------------------------------------------------------------
(* Claims about processDocCContent *)

Floor(kind) == IF kind = "parameter" THEN ParameterFloor ELSE AbstractFloor

\* C12: every record in an index was built from a text of at least the floor
\* of its category: 20 characters for a parameter note, 50 otherwise
C12_MinimumLength ==
    \A k \in 1..Len(pgIndex) : CharLength(pgIndex[k].text) >= Floor(pgIndex[k].kind)

\* C13: the vector engine's processDocCContent returns one abstract chunk
\* when the abstract text has at least 50 characters, and none when it has fewer
C13_AbstractFloor ==
    (pgEngine = "vector" /\ pgPc = "processed")
        => LET n == Cardinality({k \in 1..Len(pgChunks) : pgChunks[k].kind = "abstract"})
           IN  n = IF CharLength(pgSymbol.abstract) >= AbstractFloor THEN 1 ELSE 0

-----------------------------------------------------------------------------
(* Claims about the content extractors *)

\* the fragments of a string, its spaces left out
Fragments(s) == SelectSeq(s, LAMBDA f : f # " ")

\* C14: every extractor returns a string whatever value it is given, and the
\* empty string for a value that is not an array or is the empty array
C14_ExtractionTotal ==
    exPath # "none"
        => /\ exOut.outcome = "ok"
           /\ (~exTree.has \/ exTree.items = <<>>) => exOut.results = <<>>

\* C15: the lexical extractor returns the fragments the lookup path's and
\* the vector engine's extractors return for the same content
C15_PathsAgree ==
    exPath = "lexical"
        => /\ exOut.outcome = DocCArchiveManager_extractTextFromContent(exTree).outcome
           /\ exOut.outcome = SemanticSearchEngine_extractTextFromContent(exTree).outcome
           /\ Fragments(exOut.results)
                = Fragments(DocCArchiveManager_extractTextFromContent(exTree).results)
           /\ Fragments(exOut.results)
                = Fragments(SemanticSearchEngine_extractTextFromContent(exTree).results)

\* the text and codeVoice leaves of a content value, depth first, left to right
RECURSIVE LeafFragments(_)
LeafFragments(items) ==
    IF items = <<>> THEN <<>>
    ELSE LET item == Head(items)
             own == IF item.type = "text" /\ item.text # "" THEN <<item.text>>
                    ELSE IF item.type = "codeVoice" /\ HasCode(item.code)
                    THEN CodeToString(item.code)
                    ELSE IF item.inlineContent.has
                    THEN LeafFragments(item.inlineContent.items)
                    ELSE IF item.content.has THEN LeafFragments(item.content.items)
                    ELSE <<>>
         IN  own \o LeafFragments(Tail(items))

\* C16: what the lookup path's and the vector engine's extractors return is
\* the leaf fragments in depth-first order with one space between neighbours
C16_SingleSpaced ==
    (exPath \in {"manager", "vector"} /\ exOut.outcome = "ok" /\ exTree.has)
        => exOut.results
             = JoinWith([k \in 1..Len(LeafFragments(exTree.items)) |->
                            <<LeafFragments(exTree.items)[k]>>], " ")

-----------------------------------------------------------------------------
(* Claims about listArchives *)

laListed == laLast.op = "listArchives"

\* C17: every record listArchives returns has the display name, the bundle
\* identifier and the document count of the archive directory its path names
C17_OneRootPerRecord ==
    laListed
        => \A k \in 1..Len(laLast.archives) :
             LET rec == laLast.archives[k]
                 entry == laFs[rec.path[1]].entries[rec.path[2]]
             IN  /\ entry.present
                 /\ rec.displayName = entry.metadata
                 /\ rec.bundleIdentifier = entry.metadata
                 /\ rec.symbolCount = entry.symbolCount

\* C18: listArchives returns, and its result has a record for every archive
\* with readable metadata under every readable root, wherever the unreadable
\* roots are in the list
C18_ListingNeverAborts ==
    laListed
        => /\ laLast.outcome = "ok"
           /\ \A r \in Roots, n \in ArchiveNames :
                  (laFs[r].readable /\ laFs[r].entries[n].present
                      /\ laFs[r].entries[n].metadata # "none")
                      => \E k \in 1..Len(laLast.archives) :
                             laLast.archives[k].path = <<r, n>>

\* C18 happens: the first root is unreadable and an archive of a later root
\* was listed
C18_Witness ==
    /\ laListed
    /\ ~laFs[1].readable
    /\ Len(laLast.archives) >= 1

-----------------------------------------------------------------------------
(* Claims about the recursive id search *)

\* the data tree holds, at any depth, a file of that base name
RECURSIVE ContainsFile(_, _)
ContainsFile(entries, n) ==
    \E k \in 1..Len(entries) :
        IF entries[k].dir THEN ContainsFile(entries[k].kids, n)
        ELSE entries[k].name = n

\* the data directory of the archive a returned path lies in
rsTreeOf(path) == ArchiveAt(path[1], rsLast.archive).data

\* C19: when getSymbol resolves a one-component id by the recursive search
\* and the data tree it answers from holds a file named exactly as the id,
\* the file returned is named exactly as the id
C19_ExactMatchFirst ==
    (/\ rsLast.op = "getSymbol"
     /\ Len(rsLast.id) = 1
     /\ rsLast.result # NullDocument
     /\ ContainsFile(rsTreeOf(rsLast.result.file), rsLast.id[1]))
        => rsLast.result.file[Len(rsLast.result.file)] = rsLast.id[1]

\* the article search of one data tree answers from tutorials if tutorials
\* holds a match, else from documentation if documentation holds one
C20_SubtreeOrder ==
    (rsLast.op = "getArticle" /\ Len(rsLast.id) = 1 /\ rsLast.result # NullDocument)
        => LET path == rsLast.result.file
               tree == rsTreeOf(path)
               tut == SubDir(tree, "tutorials")
               doc == SubDir(tree, "documentation")
           IN  IF tut # Null /\ searchForSymbolFile(tut[1], rsLast.id, <<>>) # Null
               THEN path[2] = "tutorials"
               ELSE IF doc # Null /\ searchForSymbolFile(doc[1], rsLast.id, <<>>) # Null
               THEN path[2] = "documentation"
               ELSE TRUE

\* C20: getArticle answers from tutorials before documentation before the
\* other subtrees, and it finds a document for every id for which the symbol
\* resolver finds one
C20_ArticleOrderAndFallback ==
    /\ C20_SubtreeOrder
    /\ rsLast.op = "getArticle"
           => (findSymbolPath(1, rsLast.id, rsLast.archive) # Null
                  => rsLast.result # NullDocument)

-----------------------------------------------------------------------------
(* Claims about the manager's operations *)

\* no root holds the archive of the last call
mgArchiveAbsent == firstArchiveRoot(1, rsLast.archive) = 0

\* the document files of the archive the bulk operations read
mgFiles(archiveName) ==
    LET r == firstArchiveRoot(1, archiveName) IN
    IF r = 0 THEN <<>> ELSE findJsonFiles(ArchiveAt(r, archiveName).data, <<r>>)

\* C21: an absent archive, symbol, article or path never raises an error:
\* getSymbol and getArticle return null for an archive under no root, search
\* returns normally and with an empty list for such an archive, and
\* browseArchive returns normally
C21_NotFoundNeverThrows ==
    /\ (rsLast.op \in {"getSymbol", "getArticle"} /\ mgArchiveAbsent)
           => rsLast.result = NullDocument
    /\ rsLast.op = "search"
           => /\ rsLast.result.outcome = "ok"
              /\ mgArchiveAbsent => rsLast.result.results = <<>>
    /\ rsLast.op = "browseArchive" => rsLast.result.outcome = "ok"

\* C22: a malformed file aborts no bulk operation: search returns every
\* well-formed file of the archive that matches the query, and a builder run
\* hands on a document for every well-formed file of every archive and ends
\* with its save
C22_MalformedSkipped ==
    /\ rsLast.op = "search"
           => /\ rsLast.result.outcome = "ok"
              /\ \A k \in 1..Len(mgFiles(rsLast.archive)) :
                     LET file == mgFiles(rsLast.archive)[k] IN
                     (Parses(file) /\ matchesQuery(file, rsLast.query))
                         => \E j \in 1..Len(rsLast.result.results) :
                                rsLast.result.results[j] = file
    /\ (rsLast.op = "buildIndex" /\ rsLast.result.outcome = "ok")
           => /\ rsLast.result.saved
              /\ \A k \in 1..Len(mgFiles("A")) :
                     Parses(mgFiles("A")[k])
                         => \E j \in 1..Len(rsLast.result.ingested) :
                                rsLast.result.ingested[j].entry = mgFiles("A")[k]

\* C23: getArticle never returns a document getSymbol stored and getSymbol
\* never returns one getArticle stored
C23_KeysCollisionFree ==
    /\ rsLast.op = "getSymbol" => rsLast.result.view.kind \in {"symbol", "null"}
    /\ rsLast.op = "getArticle" => rsLast.result.view.kind \in {"article", "null"}

\* C25: a symbol document getSymbol returns is the one a call with the same
\* arguments on an empty cache returns: it is a summary exactly if this call
\* asked for one, holds at most maxSections sections of this call, and has
\* references only if this call asked for them
C25_CacheTransparent ==
    (rsLast.op = "getSymbol" /\ rsLast.result.view.kind = "symbol")
        => /\ rsLast.result
                  = getSymbolResult(<<>>, rsLast.id, rsLast.archive, rsLast.options).result
           /\ rsLast.result.view.summaryOnly = rsLast.options.summaryOnly
           /\ rsLast.result.view.sections <= rsLast.options.maxSections
           /\ rsLast.result.view.references => rsLast.options.includeReferences

\* C24: a builder run with --rebuild saves exactly the records of that run,
\* and a run without --rebuild over an index file that a run over the same
\* archives wrote saves that file's records again, none of them twice
C24_ReindexIdempotent ==
    (rsLast.op = "buildIndex" /\ rsLast.result.outcome = "ok" /\ ixSaved.ok)
        => LET once == FileOf(StringifyEmbeddings(builderRecords(rsLast.result.ingested)))
           IN  /\ rsLast.rebuild => ixFile = once
               /\ (~rsLast.rebuild /\ rsLast.before = once) => ixFile = once

\* C27: every document a builder run hands to processDocCContent for a
\* directory entry was read from the file of that entry
C27_OwnContent ==
    rsLast.op = "buildIndex"
        => \A k \in 1..Len(rsLast.result.ingested) :
               rsLast.result.ingested[k].document.file = rsLast.result.ingested[k].entry

\* a path <<root, components...>> that stays below the data directory
InsideData(path) == \A k \in 2..Len(path) : path[k] # ".."

\* C29: getSymbol and getArticle read, and browseArchive lists, only below
\* the data directory of the archive
C29_Confined ==
    /\ rsLast.op \in {"getSymbol", "getArticle"} => InsideData(rsLast.result.file)
    /\ (rsLast.op = "browseArchive" /\ rsLast.result.outcome = "ok")
           => /\ InsideData(<<firstArchiveRoot(1, rsLast.archive)>> \o Normalize(rsLast.path))
              /\ \A k \in 1..Len(rsLast.result.entries) :
                     InsideData(rsLast.result.entries[k].at)

-----------------------------------------------------------------------------
(* Claims about the engines' records *)

\* C26: in a lexical engine the corpus and the list of records have the same
\* length and entry i of the corpus is the cleaned content of record i
C26_CorpusAligned ==
    ixText
        => /\ Len(tfidf) = Len(documents)
           /\ \A i \in 1..Len(documents) : tfidf[i] = cleanText(documents[i].content)

\* C28: when a vector addToIndex returned normally the index has grown by one
\* record per submitted chunk, in the order submitted, each with an embedding
C28_AllOrError ==
    (ixVector /\ ixLast.op = "addToIndex" /\ ixLast.outcome = "ok")
        => /\ Len(embeddings) = ixLast.before + Len(ixLast.chunks)
           /\ \A k \in 1..Len(ixLast.chunks) :
                  /\ embeddings[ixLast.before + k].content = ixLast.chunks[k].content
                  /\ embeddings[ixLast.before + k].archive = ixLast.chunks[k].archive
                  /\ embeddings[ixLast.before + k].embedding # <<>>

-----------------------------------------------------------------------------
(* Claims about concurrent calls *)

coAllDone ==
    /\ tasks.add.pc = "done" /\ tasks.load.pc = "done"
    /\ tasks.save.pc = "done" /\ tasks.search.pc = "done"

\* how often a list of records holds the content of a chunk
coCount(records, chunk) ==
    Cardinality({i \in 1..Len(records) :
                    /\ records[i].content = chunk.content
                    /\ records[i].archive = chunk.archive})

coIndex == IF coVector THEN embeddings ELSE documents

\* C30: once all calls have finished, every chunk of an addToIndex that
\* returned after loadIndex had replaced the index is in the index exactly as
\* often as it was passed, besides the records loadIndex read; and the index
\* file holds complete records only
C30_NoLostRecords ==
    coAllDone
        => /\ tasks.add.afterLoad
                  => \A k \in 1..Len(tasks.add.chunks) :
                         coCount(coIndex, tasks.add.chunks[k])
                             = coCount(tasks.add.chunks, tasks.add.chunks[k])
                                 + coCount(tasks.load.got, tasks.add.chunks[k])
           /\ (coVector /\ ixFile.state = "json")
                  => \A k \in 1..Len(ixFile.body) :
                         Member(ixFile.body[k], "embedding") # <<>>

====
